---- MODULE Spec2Model ----
(***************************************************************************)
(* Model of the consumer-processor worker: the queue adapters              *)
(* (src/src/adapters/sqs.ts), the dispatcher main loop (service.ts, the    *)
(* godot_optimizer variant) and the godot-optimizer pipelines              *)
(* (runners/godot-optimizer/index.ts) with the engine client               *)
(* (src/src/adapters/asset-server.ts).                                     *)
(*                                                                         *)
(* JavaScript runs one continuation at a time, so one action is the code   *)
(* executed between two awaits that touch the outside world (queue         *)
(* service, engine, storage).  The queue service, the producers, the       *)
(* engine and a process crash are the environment.                         *)
(***************************************************************************)
EXTENDS Integers, Sequences, FiniteSets, TLC

\* ------------------------------------------------------------------------
\* Bounds of the model (not program constants)
\* ------------------------------------------------------------------------
MaxJobs == 3
MaxDeliveries == 4
MaxPipelineJobs == 2
MaxPipelineDeliveries == 2
MaxAssets == 2

\* ------------------------------------------------------------------------
\* Program constants
\* ------------------------------------------------------------------------
ShortWaitSeconds == 1
LongWaitSeconds == 15
MaxNumberOfMessages == 1
VisibilityTimeoutSeconds == 3 * 3600

PriorityQueue == "priority"
SceneQueue == "scene"
WearableQueue == "wearable"
EmoteQueue == "emote"
QueueNames == {PriorityQueue, SceneQueue, WearableQueue, EmoteQueue}

\* Payloads a queue message can carry.  "scene": a well-formed envelope
\* whose job is a scene (entityType 'scene', absent or unknown).  "wearable":
\* a well-formed envelope whose job has entityType 'wearable' or 'emote' (the
\* two take the same branch of godotOptimizer).  "noEntity": a well-formed
\* envelope whose job has no `entity` field.  "badBody": a body that
\* JSON.parse rejects (either layer).
Bodies == {"scene", "wearable", "noEntity", "badBody"}

NoMsg == [id |-> <<"none", 0>>, body |-> "none", queue |-> "none", delivery |-> 0]

VARIABLES
  backend,            \* "sqs" | "memory"           (components.ts: TASK_QUEUE set or not)
  priorityQueueUrl,   \* TRUE iff options.priorityQueueUrl is configured
  entityQueues,       \* sequence of the configured entity queues
  processMethod,      \* "log" | "godot_optimizer"
  concurrentBundles,  \* ASSET_SERVER_CONCURRENT_BUNDLES
  sqs,                \* queue service: queue name -> sequence of [id, body, inflight]
  q,                  \* in-memory AsyncQueue: sequence of [id, body]
  sent,               \* per queue: messages published so far (memory: lastJobId)
  faults,             \* which service may fail its calls: "none" | "queue" | "storage"
  pc,                 \* continuation the worker is suspended at
  isRunning,          \* opt.isRunning of the runner
  currentQueueIndex,  \* round-robin cursor
  i,                  \* loop index of receiveMessage
  cur,                \* the delivery being processed
  handlerResult,      \* "none" | "running" | "returned" | "raised"
  raised,             \* an exception is propagating through a finally block
  report,             \* ProcessReport of the running pipeline
  nAssets,            \* allAssetHashes.length
  batchStart,         \* i of the Phase B loop
  chains,             \* Phase B per-asset chains: asset index -> state
  godot,              \* engine process: "ready" | "down"
  restarting,         \* restartGodot is in progress
  storage,            \* objects the job in progress has put in storage
  failures_total,     \* metric job_queue_failures_total
  observations,       \* end() calls: job_queue_duration_seconds observations
  \* history variables
  deleteSent,         \* delivery numbers a DeleteMessage was sent for
  order,              \* message ids in the order they were delivered to the worker
  activeHandlers,     \* handlers started and not settled
  restarts,           \* restartGodot calls made for the current job
  pipelineEntered,    \* the current job entered a pipeline
  pipelineRaised,     \* the pipeline of the current job raised
  crashedAt,          \* pc at which the process crashed
  attempts,           \* receives made by the current poll: [queue, wait, result]
  nonEmptyAtStart,    \* entity queue indexes holding a visible message at poll start
  streak,             \* queue indexes selected by consecutive polls whose receives all returned a message
  starve,             \* per entity queue: successful polls lost to other queues while non-empty
  polls,              \* poll cycles started (1 = the first poll, 2 = any later one)
  history,            \* the history of the polls (the five variables above) is recorded
  arrival,            \* scenario S3: moment the priority message was published
  \* components studied on their own
  fetcher,            \* one call of the retrying fetch component
  batchStore,         \* one storeFiles call of a storage backend
  waiter,             \* one waitForCompletion call of the engine client
  reporter,           \* one report of the monitoring reporter
  envelope,           \* one job on its way through publish and the decoding
  scene,              \* one processScene call of the godot_optimizer handler
  restart,            \* one restartGodot call of the engine client
  profile,            \* one profile expansion (handleProfile), or one urnToPointer call
  callResult          \* what the last consumeAndProcessJob call returned, where observed

vars == <<backend, priorityQueueUrl, entityQueues, processMethod, concurrentBundles,
          sqs, q, sent, faults, pc, isRunning, currentQueueIndex, i, cur,
          handlerResult, raised, report, nAssets, batchStart, chains, godot,
          restarting, storage, failures_total, observations,
          deleteSent, order, activeHandlers, restarts,
          pipelineEntered, pipelineRaised, crashedAt, attempts,
          nonEmptyAtStart, streak, starve, polls, history, arrival,
          fetcher, batchStore, waiter, reporter, envelope, scene, restart, profile,
          callResult>>

\* The worker's steps leave the calls studied on their own alone.
componentVars == <<fetcher, batchStore, waiter, reporter, envelope, scene, restart, profile>>

settingsVars == <<backend, priorityQueueUrl, entityQueues, processMethod, concurrentBundles,
                 faults, history, componentVars>>
configVars == <<settingsVars, callResult>>
pipeVars == <<raised, report, nAssets, batchStart, chains>>
pollGhosts == <<attempts, nonEmptyAtStart, streak, starve, polls, arrival>>

\* ------------------------------------------------------------------------
\* The queue service (environment of createSqsAdapter)
\* ------------------------------------------------------------------------
Min(a, b) == IF a < b THEN a ELSE b

\* New value of a history variable.
Recorded(new, old) == IF history THEN new ELSE old

\* sqs.send(...) can reject; an upload can fail.
QueueFaults == faults = "queue"
DeleteFaults == faults \in {"queue", "ack"}

\* The value consumeAndProcessJob returns is looked at under the "ack"
\* faults only; the main loop itself discards it.
ObservesResult == faults = "ack"
Returned(result) == IF ObservesResult THEN result ELSE callResult

\* components.metrics.increment('job_queue_failures_total', ...)
NotIncremented(n) == n
increment(n) == n + 1
StorageFaults == faults = "storage"

Deliveries == Len(order)

\* Jobs published and deliveries made in one behaviour: fewer when every
\* job runs a pipeline.
JobBound == IF processMethod = "godot_optimizer" THEN MaxPipelineJobs ELSE MaxJobs
DeliveryBound ==
  IF processMethod = "godot_optimizer" THEN MaxPipelineDeliveries ELSE MaxDeliveries

ConfiguredQueues ==
  (IF priorityQueueUrl THEN {PriorityQueue} ELSE {}) \cup
  {entityQueues[x] : x \in 1..Len(entityQueues)}

VisibleIn(s, qn) == {j \in 1..Len(s[qn]) : ~s[qn][j].inflight}
HasVisible(s, qn) == VisibleIn(s, qn) # {}
FirstVisible(s, qn) == CHOOSE j \in VisibleIn(s, qn) : \A l \in VisibleIn(s, qn) : j <= l

RemoveId(seq, id) == SelectSeq(seq, LAMBDA m : m.id # id)

\* What one ReceiveMessageCommand can answer: a message when the queue holds
\* a visible one, nothing otherwise, or the call fails (sqs.send rejects).
ReceiveResults(qn) ==
  (IF QueueFaults THEN {"error"} ELSE {}) \cup
  (IF HasVisible(sqs, qn) THEN {"msg"} ELSE {"empty"})

\* ------------------------------------------------------------------------
\* createSqsAdapter: entityQueues and the round-robin cursor
\* ------------------------------------------------------------------------
K == Len(entityQueues)

EntityQueueConfigs ==
  { <<SceneQueue>>, <<SceneQueue, WearableQueue>>, <<SceneQueue, EmoteQueue>>,
    <<SceneQueue, WearableQueue, EmoteQueue>> }

QueueIndexAt(c, ii, k) == (c + ii) % k

IsLastAttempt(ii, k) == ii = k - 1

AlwaysLongPoll(ii, k) == LongWaitSeconds
WaitTimeFor(ii, k) == IF IsLastAttempt(ii, k) THEN LongWaitSeconds ELSE ShortWaitSeconds

CursorStuck(queueIndex, k) == queueIndex
CursorAfterMessage(queueIndex, k) == (queueIndex + 1) % k

\* return { response, queueUsed: options.priorityQueueUrl }: the priority
\* path returns before any assignment to currentQueueIndex.
CursorAdvancedOnPriority(c, k) == (c + 1) % k
CursorAfterPriority(c, k) == c

CursorKept(c, k) == c
CursorAfterEmptyCycle(c, k) == (c + 1) % k

\* receiveMessage, lines 140-152: which queue a poll receives from first.
FirstReceiveEntity == "recv_entity"
FirstReceive == IF priorityQueueUrl THEN "recv_priority" ELSE "recv_entity"

\* while (true) { ... receiveMessage(1) : the top of one poll cycle
StartPoll(s) ==
  /\ pc' = FirstReceive
  /\ i' = 0
  /\ attempts' = <<>>
  /\ nonEmptyAtStart' =
       Recorded({x \in 0..(K - 1) : HasVisible(s, entityQueues[x + 1])}, nonEmptyAtStart)
  /\ polls' = Recorded(Min(polls + 1, 2), polls)

\* The receive returned response.Messages[0] of queue qn.
Deliver(qn) ==
  LET j == FirstVisible(sqs, qn)
      m == sqs[qn][j]
  IN /\ sqs' = [sqs EXCEPT ![qn][j].inflight = TRUE]
     /\ cur' = [id |-> m.id, body |-> m.body, queue |-> qn, delivery |-> Deliveries + 1]
     /\ order' = Append(order, m.id)
     /\ pc' = "process"

\* ReceiveMessageCommand({ MaxNumberOfMessages: 1, ..., WaitTimeSeconds,
\* VisibilityTimeout: 3 * 3600 }) and what came back.
Attempt(qn, wait, r) ==
  [queue |-> qn, wait |-> wait, result |-> r,
   MaxNumberOfMessages |-> MaxNumberOfMessages,
   VisibilityTimeout |-> VisibilityTimeoutSeconds]

\* receiveMessage, lines 141-147: the priority queue is tried first.
RecvPriority ==
  /\ pc = "recv_priority"
  /\ Deliveries < DeliveryBound
  /\ \E r \in ReceiveResults(PriorityQueue) :
       /\ attempts' = Recorded(Append(attempts, Attempt(PriorityQueue, ShortWaitSeconds, r)), attempts)
       /\ IF r = "msg"
          THEN /\ Deliver(PriorityQueue)
               /\ currentQueueIndex' = CursorAfterPriority(currentQueueIndex, K)
               /\ UNCHANGED i
          ELSE /\ pc' = "recv_entity"
               /\ UNCHANGED <<sqs, cur, order, i, currentQueueIndex>>
  /\ UNCHANGED <<configVars, pipeVars, q, sent, isRunning,
                 handlerResult, godot, restarting, storage, failures_total,
                 observations, deleteSent, activeHandlers, restarts,
                 pipelineEntered, pipelineRaised, crashedAt, nonEmptyAtStart,
                 streak, starve, polls, arrival>>

ErrorAt(x) ==
  \E a \in 1..Len(attempts) :
    attempts[a].queue = entityQueues[x + 1] /\ attempts[a].result = "error"

\* receiveMessage, lines 154-171: one round-robin attempt.
RecvEntity ==
  /\ pc = "recv_entity"
  /\ Deliveries < DeliveryBound
  /\ LET queueIndex == QueueIndexAt(currentQueueIndex, i, K)
         qn == entityQueues[queueIndex + 1]
     IN \E r \in ReceiveResults(qn) :
       /\ IF r = "msg"
          THEN /\ Deliver(qn)
               /\ currentQueueIndex' = CursorAfterMessage(queueIndex, K)
               /\ attempts' = Recorded(Append(attempts, Attempt(qn, WaitTimeFor(i, K), r)), attempts)
               /\ streak' = Recorded(IF i = 0 THEN Append(streak, queueIndex) ELSE <<>>, streak)
               /\ starve' = Recorded([x \in 0..2 |->
                                        IF x = queueIndex \/ x >= K THEN 0
                                        ELSE IF x \in nonEmptyAtStart /\ ~ErrorAt(x)
                                             THEN starve[x] + 1 ELSE 0], starve)
               /\ UNCHANGED <<i, nonEmptyAtStart, polls>>
          ELSE IF ~IsLastAttempt(i, K)
          THEN /\ i' = i + 1
               /\ attempts' = Recorded(Append(attempts, Attempt(qn, WaitTimeFor(i, K), r)), attempts)
               /\ UNCHANGED <<sqs, cur, order, pc, currentQueueIndex, streak, starve,
                              nonEmptyAtStart, polls>>
          ELSE /\ currentQueueIndex' = CursorAfterEmptyCycle(currentQueueIndex, K)
               /\ StartPoll(sqs)
               /\ streak' = <<>>
               /\ starve' = [x \in 0..2 |-> 0]
               /\ UNCHANGED <<sqs, cur, order>>
  /\ UNCHANGED <<configVars, pipeVars, q, sent, isRunning,
                 handlerResult, godot, restarting, storage, failures_total,
                 observations, deleteSent, activeHandlers, restarts,
                 pipelineEntered, pipelineRaised, crashedAt, arrival>>

\* ------------------------------------------------------------------------
\* Dispatcher main loop and consumeAndProcessJob
\* ------------------------------------------------------------------------
\* while (opt.isRunning) { await components.taskQueue.consumeAndProcessJob(...) }
\* The loop calls consumeAndProcessJob again only when the previous call
\* has returned.
LoopNotAwaiting == pc \notin {"crashed", "stopped"}
PreviousCallReturned == pc = "main_loop"

MainLoop ==
  /\ PreviousCallReturned
  /\ isRunning
  /\ Deliveries < DeliveryBound
  /\ IF backend = "sqs"
     THEN StartPoll(sqs)
     ELSE /\ pc' = "mem_next"
          /\ UNCHANGED <<i, attempts, nonEmptyAtStart, polls>>
  /\ callResult' = Returned("none")
  /\ UNCHANGED <<settingsVars, pipeVars, sqs, q, sent, isRunning, currentQueueIndex,
                 cur, handlerResult, godot, restarting, storage, failures_total,
                 observations, deleteSent, order, activeHandlers,
                 restarts, pipelineEntered, pipelineRaised, crashedAt, streak, starve,
                 arrival>>

\* createMemoryQueueAdapter.consumeAndProcessJob: (await q.next()).value
MemNext ==
  /\ pc = "mem_next"
  /\ q # <<>>
  /\ cur' = [id |-> Head(q).id, body |-> Head(q).body, queue |-> "memory",
             delivery |-> Deliveries + 1]
  /\ q' = Tail(q)
  /\ order' = Append(order, Head(q).id)
  /\ pc' = "process"
  /\ UNCHANGED <<configVars, pipeVars, sqs, sent, isRunning, currentQueueIndex, i,
                 handlerResult, godot, restarting, storage, failures_total,
                 observations, deleteSent, activeHandlers, restarts,
                 pipelineEntered, pipelineRaised, crashedAt, pollGhosts>>

\* return { result, message } and return { result: undefined, message }
HandlersResult == "result"
ResultKept == "result"
ResultUndefined == "undefined"

\* JSON.parse(it.Body!) and JSON.parse(bodyParsed.Message), sqs.ts 210-211
ParseAccepts(body) == body # "badBody"

\* end() of the finally block: one observation of job_queue_duration_seconds
NoObservation(n) == n
EndTimer(n) == n + 1

\* The body of the delivery does not parse: catch (failures_total), finally
\* (end), return.  The handler is not invoked and nothing is deleted.
ProcessBadBody ==
  /\ pc = "process"
  /\ ~ParseAccepts(cur.body)
  /\ failures_total' = increment(failures_total)
  /\ observations' = EndTimer(observations)
  /\ pc' = "main_loop"
  /\ cur' = NoMsg
  /\ attempts' = <<>>
  /\ callResult' = Returned(ResultUndefined)
  /\ UNCHANGED <<settingsVars, pipeVars, sqs, q, sent, isRunning, currentQueueIndex, i,
                 handlerResult, godot, restarting, storage, deleteSent, order,
                 activeHandlers, restarts, pipelineEntered, pipelineRaised, crashedAt,
                 nonEmptyAtStart, streak, starve, polls, arrival>>

\* processMethod 'log': the handler logs and returns (service.ts, case 'log')
ProcessLog ==
  /\ pc = "process"
  /\ ParseAccepts(cur.body)
  /\ processMethod = "log"
  /\ handlerResult' = "returned"
  /\ pc' = "handler_settled"
  /\ attempts' = <<>>
  /\ UNCHANGED <<configVars, pipeVars, sqs, q, sent, isRunning, currentQueueIndex, i,
                 cur, godot, restarting, storage, failures_total, observations,
                 deleteSent, order, activeHandlers, restarts, pipelineEntered,
                 pipelineRaised, crashedAt, nonEmptyAtStart, streak, starve, polls,
                 arrival>>

\* sqs.ts 212-222 / 223-231: what the adapter does once the handler settled.
\* The DeleteMessageCommand is reached unless `await taskRunner` threw.
AckAlways(hr) == TRUE
SendsDelete(hr) == hr # "raised"

\* `await taskRunner(job, message)`: the adapter resumes when the handler
\* promise has settled.
HandlerPcs ==
  {"sc_isReady", "sc_meta_submit", "sc_meta_wait", "sc_meta_store", "sc_batch",
   "we_isReady", "we_fetch", "we_submit", "we_wait", "we_store",
   "report", "restart_kill", "restart_poll"}

ResumesBeforeSettled == pc \in HandlerPcs \cup {"handler_settled"}
HandlerSettled == pc = "handler_settled"

\* The pipeline's locals (report, asset list) die with the handler call; the
\* model also forgets what the finished job stored.
JobForgotten ==
  /\ raised' = FALSE
  /\ report' = "none"
  /\ nAssets' = 0
  /\ batchStart' = 0
  /\ chains' = <<>>
  /\ storage' = {}
  /\ restarts' = 0
  /\ pipelineEntered' = FALSE
  /\ pipelineRaised' = FALSE

AfterHandlerSqs ==
  /\ HandlerSettled
  /\ backend = "sqs"
  /\ IF SendsDelete(handlerResult)
     THEN /\ deleteSent' = deleteSent \cup {cur.delivery}
          /\ pc' = "deleting"
          /\ UNCHANGED <<failures_total, observations, cur, callResult>>
     ELSE /\ failures_total' = increment(failures_total)
          /\ observations' = EndTimer(observations)
          /\ pc' = "main_loop"
          /\ cur' = NoMsg
          /\ callResult' = Returned(ResultUndefined)
          /\ UNCHANGED deleteSent
  /\ handlerResult' = IF SendsDelete(handlerResult) THEN handlerResult ELSE "none"
  /\ JobForgotten
  /\ UNCHANGED <<settingsVars, sqs, q, sent, isRunning, currentQueueIndex, i,
                 godot, restarting, order, activeHandlers, crashedAt, pollGhosts>>

\* sqs.ts 70-79: the in-memory adapter has no acknowledgement step.
AfterHandlerMemory ==
  /\ pc = "handler_settled"
  /\ backend = "memory"
  /\ failures_total' =
       IF handlerResult = "raised" THEN increment(failures_total) ELSE failures_total
  /\ callResult' =
       Returned(IF handlerResult = "raised" THEN ResultUndefined ELSE HandlersResult)
  /\ observations' = EndTimer(observations)
  /\ pc' = "main_loop"
  /\ cur' = NoMsg
  /\ handlerResult' = "none"
  /\ JobForgotten
  /\ UNCHANGED <<settingsVars, sqs, q, sent, isRunning, currentQueueIndex, i,
                 godot, restarting, deleteSent, order,
                 activeHandlers, crashedAt, pollGhosts>>

\* await sqs.send(new DeleteMessageCommand(...)) settles, sqs.ts 215-231
DeleteDone ==
  /\ pc = "deleting"
  /\ \E r \in {"ok"} \cup (IF DeleteFaults THEN {"error"} ELSE {}) :
       IF r = "ok"
       THEN /\ sqs' = [sqs EXCEPT ![cur.queue] = RemoveId(@, cur.id)]
            /\ callResult' = Returned(HandlersResult)
            /\ UNCHANGED failures_total
       ELSE /\ failures_total' = increment(failures_total)
            /\ callResult' = Returned(ResultUndefined)
            /\ UNCHANGED sqs
  /\ observations' = EndTimer(observations)
  /\ pc' = "main_loop"
  /\ cur' = NoMsg
  /\ handlerResult' = "none"
  /\ UNCHANGED <<settingsVars, pipeVars, q, sent, isRunning, currentQueueIndex, i,
                 godot, restarting, storage, deleteSent,
                 order, activeHandlers, restarts, pipelineEntered, pipelineRaised,
                 crashedAt, pollGhosts>>

\* ------------------------------------------------------------------------
\* The godot_optimizer handler: godotOptimizer, processScene,
\* processWearableOrEmote, storeReport; the engine client
\* ------------------------------------------------------------------------
outsidePipeline == <<configVars, sqs, q, sent, isRunning, currentQueueIndex, i, cur,
                     failures_total, observations, deleteSent, order, crashedAt,
                     nonEmptyAtStart, streak, starve, polls, arrival>>

\* Object written by storage.storeFile.  `of` is 0 for the entity id and
\* a >= 1 for the a-th asset hash.
StoredObject(key, of, content) == [key |-> key, of |-> of, content |-> content]
MetadataZip == StoredObject("mobile.zip", 0, "zip")
AssetZip(a) == StoredObject("mobile.zip", a, "zip")
ReportObject(r) == StoredObject("report.json", 0, r)

\* storeFile logs a failed upload and returns: the object may be missing.
WriteResults == IF StorageFaults THEN BOOLEAN ELSE {TRUE}
StoreFile(obj, written) == IF written THEN storage \cup {obj} ELSE storage

\* catch (error) { report.result = { success: false }; throw error }
\* followed by the finally block of the pipeline.
ThrowsLeavingResultNull ==
  /\ raised' = TRUE
  /\ pc' = "report"
  /\ UNCHANGED report

Throws ==
  /\ report' = "failure"
  /\ raised' = TRUE
  /\ pc' = "report"

\* report.result = { success: true, ... }; return, through the finally block.
Returns(success) ==
  /\ report' = IF success THEN "success" ELSE "failure"
  /\ raised' = FALSE
  /\ pc' = "report"

\* The async handler of main runs until the first await of the pipeline.
EnterPipeline(first) ==
  /\ pc' = first
  /\ handlerResult' = "running"
  /\ activeHandlers' = activeHandlers + 1
  /\ pipelineEntered' = TRUE
  /\ report' = "pending"
  /\ attempts' = <<>>
  /\ UNCHANGED <<raised, nAssets, batchStart, chains, godot, restarting, storage,
                 restarts, pipelineRaised>>

\* godotOptimizer line 62: entityWithType.entity.entityType of a job without
\* `entity` throws before the try block; the catch of main then evaluates
\* job.entity.entityId and throws again: the handler raises.
ProcessGodotNoEntity ==
  /\ pc = "process"
  /\ ParseAccepts(cur.body)
  /\ processMethod = "godot_optimizer"
  /\ cur.body = "noEntity"
  /\ handlerResult' = "raised"
  /\ pc' = "handler_settled"
  /\ attempts' = <<>>
  /\ UNCHANGED <<outsidePipeline, pipeVars, godot, restarting, storage, activeHandlers,
                 restarts, pipelineEntered, pipelineRaised>>

ProcessGodotScene ==
  /\ pc = "process"
  /\ ParseAccepts(cur.body)
  /\ processMethod = "godot_optimizer"
  /\ cur.body = "scene"
  /\ EnterPipeline("sc_isReady")
  /\ UNCHANGED outsidePipeline

ProcessGodotWearable ==
  /\ pc = "process"
  /\ ParseAccepts(cur.body)
  /\ processMethod = "godot_optimizer"
  /\ cur.body = "wearable"
  /\ EnterPipeline("we_isReady")
  /\ UNCHANGED outsidePipeline

\* Engine calls of the pipeline that have not settled.
ActiveChains == {a \in 1..Len(chains) : chains[a] \in {"submit", "wait", "store"}}

EngineCallsInFlight ==
  (IF pc \in {"sc_isReady", "sc_meta_submit", "sc_meta_wait",
              "we_isReady", "we_submit", "we_wait"} THEN 1 ELSE 0)
  + Cardinality({a \in 1..Len(chains) : chains[a] \in {"submit", "wait"}})

\* 1. const isReady = await assetServer.isReady()
\* const isReady = await assetServer.isReady(); if (!isReady) throw ...
ReadinessNotChecked == TRUE
EngineIsReady == godot = "ready"

ScIsReady ==
  /\ pc = "sc_isReady"
  /\ IF EngineIsReady
     THEN /\ pc' = "sc_meta_submit"
          /\ UNCHANGED <<raised, report>>
     ELSE Throws
  /\ UNCHANGED <<outsidePipeline, attempts, handlerResult, nAssets, batchStart, chains,
                 godot, restarting, storage, activeHandlers, restarts,
                 pipelineEntered, pipelineRaised>>

\* Outcomes of a submission (assetServer.processScene / processAssets):
\* accepted, or `Failed to submit ...: ${status} ${errorText}`.
SubmitResults ==
  {"accepted", "status_400", "no_processable_assets", "status_500", "status_500_text_400"}

\* response.status and the response text of each refused submission.  A
\* text is a sequence of pieces: a word (or the phrase looked for) or one
\* character of a number.
SubmitStatus(r) ==
  CASE r = "status_400" -> 400
    [] r = "no_processable_assets" -> 422
    [] OTHER -> 500

NoProcessableAssets == <<"No processable assets">>

SubmitErrorText(r) ==
  CASE r = "status_400" -> <<"Bad", " ", "Request">>
    [] r = "no_processable_assets" -> NoProcessableAssets \o <<" ", "in", " ", "scene">>
    [] r = "status_500" -> <<"Internal", " ", "Server", " ", "Error">>
    [] r = "status_500_text_400" ->
         <<"render", " ", "timeout", " ", "after", " ", "2", "4", "0", "0", "0", " ", "ms">>

DigitChars == <<"0", "1", "2", "3", "4", "5", "6", "7", "8", "9">>
StatusText(status) ==
  <<DigitChars[(status \div 100) + 1], DigitChars[((status \div 10) % 10) + 1],
    DigitChars[(status % 10) + 1]>>

\* `Failed to submit scene for processing: ${response.status} ${errorText}`
ErrorMessage(r) ==
  <<"Failed to submit scene for processing:", " ">> \o StatusText(SubmitStatus(r))
    \o <<" ">> \o SubmitErrorText(r)

\* String.prototype.includes
Includes(text, needle) ==
  \E k \in 1..(Len(text) - Len(needle) + 1) :
    SubSeq(text, k, k + Len(needle) - 1) = needle

\* errorMsg.includes('No processable assets') || errorMsg.includes('400')
TreatedAsNoAssets(r) ==
  \/ Includes(ErrorMessage(r), NoProcessableAssets)
  \/ Includes(ErrorMessage(r), <<"4", "0", "0">>)

\* 2. the metadata pass: processScene with packHashes = []
ScMetaSubmit ==
  /\ pc = "sc_meta_submit"
  /\ \E r \in SubmitResults :
       IF r = "accepted"
       THEN /\ pc' = "sc_meta_wait"
            /\ UNCHANGED <<raised, report>>
       ELSE IF TreatedAsNoAssets(r) THEN Returns(TRUE) ELSE Throws
  /\ UNCHANGED <<outsidePipeline, attempts, handlerResult, nAssets, batchStart, chains,
                 godot, restarting, storage, activeHandlers, restarts,
                 pipelineEntered, pipelineRaised>>

\* waitForCompletion: a terminal status, with or without zip_path, or a
\* timeout error.
WaitResults == {"completed", "completed_no_zip", "failed", "timeout"}

\* extractMetadataFromZip
ExtractionResults == {"metadata", "empty_zip", "metadata_not_found", "parse_error"}

\* 3. and 4. wait for the metadata batch, read the metadata out of the ZIP
ScMetaWait ==
  /\ pc = "sc_meta_wait"
  /\ \E r \in WaitResults, x \in ExtractionResults, n \in 0..MaxAssets :
       IF r # "completed" \/ x = "parse_error"
       THEN /\ Throws
            /\ UNCHANGED <<nAssets, chains>>
       ELSE IF x \in {"empty_zip", "metadata_not_found"}
       THEN /\ Returns(TRUE)
            /\ UNCHANGED <<nAssets, chains>>
       ELSE /\ nAssets' = n
            /\ chains' = [a \in 1..n |-> "pending"]
            /\ pc' = "sc_meta_store"
            /\ UNCHANGED <<raised, report>>
  /\ UNCHANGED <<outsidePipeline, attempts, handlerResult, batchStart,
                 godot, restarting, storage, activeHandlers, restarts,
                 pipelineEntered, pipelineRaised>>

\* batch = allAssetHashes.slice(i, i + concurrentBundles)
AllRemaining(start) == {a \in 1..nAssets : start < a}
Batch(start) == {a \in 1..nAssets : start < a /\ a <= start + concurrentBundles}

\* batch.map(async ...) runs every chain of the batch up to its first await
StartBatch(start) ==
  /\ batchStart' = start
  /\ chains' = [a \in 1..nAssets |-> IF a \in Batch(start) THEN "submit" ELSE chains[a]]
  /\ pc' = "sc_batch"

\* 5. await storage.storeFile(`${entityId}-mobile.zip`), then either the
\* early return of a scene without assets or the first Phase B batch
ScMetaStore ==
  /\ pc = "sc_meta_store"
  /\ \E written \in WriteResults : storage' = StoreFile(MetadataZip, written)
  /\ IF nAssets = 0
     THEN /\ Returns(TRUE)
          /\ UNCHANGED <<batchStart, chains>>
     ELSE /\ StartBatch(0)
          /\ UNCHANGED <<raised, report>>
  /\ UNCHANGED <<outsidePipeline, attempts, handlerResult, nAssets,
                 godot, restarting, activeHandlers, restarts,
                 pipelineEntered, pipelineRaised>>

\* One await of one per-asset chain of Phase B settles.
ChainStep ==
  /\ pc = "sc_batch"
  /\ \E a \in ActiveChains :
       \/ /\ chains[a] = "submit"
          /\ \E r \in SubmitResults :
               chains' = [chains EXCEPT ![a] = IF r = "accepted" THEN "wait" ELSE "failed"]
          /\ UNCHANGED storage
       \/ /\ chains[a] = "wait"
          /\ \E r \in WaitResults :
               chains' = [chains EXCEPT ![a] = IF r = "completed" THEN "store" ELSE "failed"]
          /\ UNCHANGED storage
       \/ /\ chains[a] = "store"
          /\ \E written \in WriteResults : storage' = StoreFile(AssetZip(a), written)
          /\ chains' = [chains EXCEPT ![a] = "ok"]
  /\ UNCHANGED <<outsidePipeline, attempts, pc, handlerResult, raised, report, nAssets,
                 batchStart, godot, restarting, activeHandlers, restarts,
                 pipelineEntered, pipelineRaised>>

\* await Promise.all(batchPromises)
AnyChainSettled == \E a \in Batch(batchStart) : chains[a] \in {"ok", "failed"}
BatchSettled == \A a \in Batch(batchStart) : chains[a] \in {"ok", "failed"}

Failed == Cardinality({a \in 1..Len(chains) : chains[a] = "failed"})
Successful == Cardinality({a \in 1..Len(chains) : chains[a] = "ok"})

\* The for loop of Phase B moves to the next batch, or the pipeline sets
\* report.result with success: report.individualAssets.failed === 0.
BatchDone ==
  /\ pc = "sc_batch"
  /\ BatchSettled
  /\ IF batchStart + concurrentBundles < nAssets
     THEN /\ StartBatch(batchStart + concurrentBundles)
          /\ UNCHANGED <<raised, report>>
     ELSE /\ Returns(Failed = 0)
          /\ UNCHANGED <<batchStart, chains>>
  /\ UNCHANGED <<outsidePipeline, attempts, handlerResult, nAssets,
                 godot, restarting, storage, activeHandlers, restarts,
                 pipelineEntered, pipelineRaised>>

\* processWearableOrEmote 1.: isReady, then profile data or the entity
\* definition fetch
WeIsReady ==
  /\ pc = "we_isReady"
  /\ IF EngineIsReady
     THEN /\ \E profileData \in BOOLEAN :
               pc' = IF profileData THEN "we_submit" ELSE "we_fetch"
          /\ UNCHANGED <<raised, report>>
     ELSE Throws
  /\ UNCHANGED <<outsidePipeline, attempts, handlerResult, nAssets, batchStart, chains,
                 godot, restarting, storage, activeHandlers, restarts,
                 pipelineEntered, pipelineRaised>>

\* await fetchEntityDefinition(...): fails, has no GLTF/GLB file, or has one
WeFetch ==
  /\ pc = "we_fetch"
  /\ \E r \in {"error", "no_gltf", "gltf"} :
       IF r = "error" THEN Throws
       ELSE IF r = "no_gltf" THEN Returns(TRUE)
       ELSE /\ pc' = "we_submit"
            /\ UNCHANGED <<raised, report>>
  /\ UNCHANGED <<outsidePipeline, attempts, handlerResult, nAssets, batchStart, chains,
                 godot, restarting, storage, activeHandlers, restarts,
                 pipelineEntered, pipelineRaised>>

\* 3. await assetServer.processAssets(...)
WeSubmit ==
  /\ pc = "we_submit"
  /\ \E r \in SubmitResults :
       IF r = "accepted"
       THEN /\ pc' = "we_wait"
            /\ UNCHANGED <<raised, report>>
       ELSE Throws
  /\ UNCHANGED <<outsidePipeline, attempts, handlerResult, nAssets, batchStart, chains,
                 godot, restarting, storage, activeHandlers, restarts,
                 pipelineEntered, pipelineRaised>>

\* 4. await assetServer.waitForCompletion(...)
WeWait ==
  /\ pc = "we_wait"
  /\ \E r \in WaitResults :
       IF r = "completed"
       THEN /\ pc' = "we_store"
            /\ UNCHANGED <<raised, report>>
       ELSE Throws
  /\ UNCHANGED <<outsidePipeline, attempts, handlerResult, nAssets, batchStart, chains,
                 godot, restarting, storage, activeHandlers, restarts,
                 pipelineEntered, pipelineRaised>>

\* 5. await storage.storeFile(`${gltfHash}-mobile.zip`, ...)
WeStore ==
  /\ pc = "we_store"
  /\ \E written \in WriteResults : storage' = StoreFile(AssetZip(1), written)
  /\ Returns(TRUE)
  /\ UNCHANGED <<outsidePipeline, attempts, handlerResult, nAssets, batchStart, chains,
                 godot, restarting, activeHandlers, restarts,
                 pipelineEntered, pipelineRaised>>

\* finally { await storeReport(...) } of the pipeline, then the finally
\* block of godotOptimizer calls assetServer.restartGodot(): the kill command
\* is issued.
StoreReport ==
  /\ pc = "report"
  /\ \E written \in WriteResults : storage' = StoreFile(ReportObject(report), written)
  /\ pipelineRaised' = raised
  /\ restarting' = TRUE
  /\ restarts' = restarts + 1
  /\ pc' = "restart_kill"
  /\ UNCHANGED <<outsidePipeline, attempts, handlerResult, raised, report, nAssets,
                 batchStart, chains, godot, activeHandlers, pipelineEntered>>

\* restartGodot: pkill settles, the engine process is gone; wait 2 s
RestartKill ==
  /\ pc = "restart_kill"
  /\ godot' = "down"
  /\ pc' = "restart_poll"
  /\ UNCHANGED <<outsidePipeline, attempts, handlerResult, pipeVars, restarting, storage,
                 activeHandlers, restarts, pipelineEntered, pipelineRaised>>

\* restartGodot: spawn, poll isReady up to 60 times, return true or false
\* (never throws).  godotOptimizer then returns or rethrows; the catch of
\* main logs a pipeline error, so the handler returns either way.
RestartPoll ==
  /\ pc = "restart_poll"
  /\ \E g \in {"ready", "down"} : godot' = g
  /\ restarting' = FALSE
  /\ raised' = FALSE
  /\ handlerResult' = "returned"
  /\ activeHandlers' = activeHandlers - 1
  /\ pc' = "handler_settled"
  /\ UNCHANGED <<outsidePipeline, attempts, report, nAssets, batchStart, chains, storage,
                 restarts, pipelineEntered, pipelineRaised>>

\* ------------------------------------------------------------------------
\* Environment: producers, visibility timeout, process crash
\* ------------------------------------------------------------------------
Published == sent[PriorityQueue] + sent[SceneQueue] + sent[WearableQueue] +
             sent[EmoteQueue] + sent["memory"]

NewMessage(qn, b) == [id |-> <<qn, sent[qn] + 1>>, body |-> b, inflight |-> FALSE]

PublishSqs(bodies) ==
  /\ backend = "sqs"
  /\ Published < JobBound
  /\ \E qn \in ConfiguredQueues, b \in bodies :
       /\ sqs' = [sqs EXCEPT ![qn] = Append(@, NewMessage(qn, b))]
       /\ sent' = [sent EXCEPT ![qn] = @ + 1]
  /\ UNCHANGED <<configVars, pipeVars, q, pc, isRunning, currentQueueIndex, i, cur,
                 handlerResult, godot, restarting, storage, failures_total,
                 observations, deleteSent, order, activeHandlers,
                 restarts, pipelineEntered, pipelineRaised, crashedAt, pollGhosts>>

\* createMemoryQueueAdapter.publish, called by the /add-queue handler with a
\* job that has an entity and no entityType
PublishMemory ==
  /\ backend = "memory"
  /\ Published < JobBound
  /\ q' = Append(q, [id |-> <<"memory", sent["memory"] + 1>>, body |-> "scene"])
  /\ sent' = [sent EXCEPT !["memory"] = @ + 1]
  /\ UNCHANGED <<configVars, pipeVars, sqs, pc, isRunning, currentQueueIndex, i, cur,
                 handlerResult, godot, restarting, storage, failures_total,
                 observations, deleteSent, order, activeHandlers,
                 restarts, pipelineEntered, pipelineRaised, crashedAt, pollGhosts>>

\* VisibilityTimeout: 3 * 3600 elapsed for a received, undeleted message
VisibilityTimeout ==
  /\ \E qn \in ConfiguredQueues : \E j \in 1..Len(sqs[qn]) :
       /\ sqs[qn][j].inflight
       /\ sqs' = [sqs EXCEPT ![qn][j].inflight = FALSE]
  /\ UNCHANGED <<configVars, pipeVars, q, sent, pc, isRunning, currentQueueIndex, i,
                 cur, handlerResult, godot, restarting, storage, failures_total,
                 observations, deleteSent, order, activeHandlers,
                 restarts, pipelineEntered, pipelineRaised, crashedAt, pollGhosts>>

Crash ==
  /\ pc \notin {"crashed", "stopped"}
  /\ crashedAt' = pc
  /\ pc' = "crashed"
  /\ UNCHANGED <<configVars, pipeVars, sqs, q, sent, isRunning, currentQueueIndex, i,
                 cur, handlerResult, godot, restarting, storage, failures_total,
                 observations, deleteSent, order, activeHandlers,
                 restarts, pipelineEntered, pipelineRaised, pollGhosts>>

\* ------------------------------------------------------------------------
\* Specifications
\* ------------------------------------------------------------------------
Idle == [pc |-> "idle"]

ComponentsIdle ==
  /\ fetcher = Idle
  /\ batchStore = Idle
  /\ waiter = Idle
  /\ reporter = Idle
  /\ envelope = Idle
  /\ scene = Idle
  /\ restart = Idle
  /\ profile = Idle

InitWorker ==
  /\ concurrentBundles \in {1, 2}
  /\ sqs = [qn \in QueueNames |-> <<>>]
  /\ q = <<>>
  /\ sent = [qn \in QueueNames \cup {"memory"} |-> 0]
  /\ pc = "main_loop"
  /\ isRunning = TRUE
  /\ currentQueueIndex = 0
  /\ i = 0
  /\ cur = NoMsg
  /\ handlerResult = "none"
  /\ raised = FALSE
  /\ report = "none"
  /\ nAssets = 0
  /\ batchStart = 0
  /\ chains = <<>>
  /\ godot \in {"ready", "down"}
  /\ restarting = FALSE
  /\ storage = {}
  /\ failures_total = 0
  /\ observations = 0
  /\ deleteSent = {}
  /\ order = <<>>
  /\ activeHandlers = 0
  /\ restarts = 0
  /\ pipelineEntered = FALSE
  /\ pipelineRaised = FALSE
  /\ crashedAt = "none"
  /\ attempts = <<>>
  /\ nonEmptyAtStart = {}
  /\ streak = <<>>
  /\ starve = [x \in 0..2 |-> 0]
  /\ polls = 0
  /\ arrival = "none"
  /\ callResult = "none"

InitCommon ==
  /\ ComponentsIdle
  /\ InitWorker

\* The worker in godot_optimizer mode, on either adapter, consuming one
\* queue (the polling order over several queues is SpecPoll's).  Either the
\* calls to the queue service or the storage writes may fail.
Init ==
  /\ InitCommon
  /\ backend \in {"sqs", "memory"}
  /\ priorityQueueUrl = FALSE
  /\ entityQueues = <<SceneQueue>>
  /\ processMethod = "godot_optimizer"
  /\ faults \in {"queue", "storage"}
  /\ history = FALSE

PublishAny == PublishSqs(Bodies)

Next ==
  \/ MainLoop
  \/ RecvEntity
  \/ MemNext
  \/ ProcessBadBody
  \/ ProcessGodotNoEntity
  \/ ProcessGodotScene
  \/ ProcessGodotWearable
  \/ ScIsReady
  \/ ScMetaSubmit
  \/ ScMetaWait
  \/ ScMetaStore
  \/ ChainStep
  \/ BatchDone
  \/ WeIsReady
  \/ WeFetch
  \/ WeSubmit
  \/ WeWait
  \/ WeStore
  \/ StoreReport
  \/ RestartKill
  \/ RestartPoll
  \/ AfterHandlerSqs
  \/ AfterHandlerMemory
  \/ DeleteDone
  \/ PublishAny
  \/ PublishMemory
  \/ VisibilityTimeout
  \/ Crash

Spec == Init /\ [][Next]_vars

\* The polling specification: the cloud adapter with every queue
\* configuration, under the 'log' process method.
InitPoll ==
  /\ InitCommon
  /\ backend = "sqs"
  /\ priorityQueueUrl \in BOOLEAN
  /\ entityQueues \in EntityQueueConfigs
  /\ processMethod = "log"
  /\ concurrentBundles = 1
  /\ godot = "ready"
  /\ faults \in {"none", "queue"}
  /\ history = TRUE

PublishPoll == PublishSqs({"scene"})

NextPoll ==
  \/ MainLoop
  \/ RecvPriority
  \/ RecvEntity
  \/ ProcessLog
  \/ AfterHandlerSqs
  \/ DeleteDone
  \/ PublishPoll

SpecPoll == InitPoll /\ [][NextPoll]_vars

\* Scenario S3: two messages wait on the default (scene) queue, and one
\* message is published to the priority queue at some moment.
MsgA == <<SceneQueue, 1>>
MsgB == <<SceneQueue, 2>>
MsgC == <<PriorityQueue, 1>>

ArrivalPhase ==
  IF polls = 0 THEN "before_first_poll"
  ELSE IF polls = 1 /\ pc = "recv_priority" THEN "during_priority_receive"
  ELSE IF polls = 1 /\ pc = "recv_entity" THEN "after_priority_receive"
  ELSE "later"

ArrivePriority ==
  /\ arrival = "none"
  /\ sqs' = [sqs EXCEPT ![PriorityQueue] = Append(@, NewMessage(PriorityQueue, "scene"))]
  /\ sent' = [sent EXCEPT ![PriorityQueue] = @ + 1]
  /\ arrival' = ArrivalPhase
  /\ UNCHANGED <<configVars, pipeVars, q, pc, isRunning, currentQueueIndex, i, cur,
                 handlerResult, godot, restarting, storage, failures_total,
                 observations, deleteSent, order, activeHandlers,
                 restarts, pipelineEntered, pipelineRaised, crashedAt, attempts,
                 nonEmptyAtStart, streak, starve, polls>>

\* Init of scenario S3: the two default-queue messages are already published.
InitS3 ==
  /\ ComponentsIdle
  /\ concurrentBundles = 1
  /\ sqs = [qn \in QueueNames |->
             IF qn = SceneQueue
             THEN << [id |-> MsgA, body |-> "scene", inflight |-> FALSE],
                     [id |-> MsgB, body |-> "scene", inflight |-> FALSE] >>
             ELSE <<>>]
  /\ q = <<>>
  /\ sent = [qn \in QueueNames \cup {"memory"} |-> IF qn = SceneQueue THEN 2 ELSE 0]
  /\ pc = "main_loop"
  /\ isRunning = TRUE
  /\ currentQueueIndex = 0
  /\ i = 0
  /\ cur = NoMsg
  /\ handlerResult = "none"
  /\ raised = FALSE
  /\ report = "none"
  /\ nAssets = 0
  /\ batchStart = 0
  /\ chains = <<>>
  /\ godot = "ready"
  /\ restarting = FALSE
  /\ storage = {}
  /\ failures_total = 0
  /\ observations = 0
  /\ deleteSent = {}
  /\ order = <<>>
  /\ activeHandlers = 0
  /\ restarts = 0
  /\ pipelineEntered = FALSE
  /\ pipelineRaised = FALSE
  /\ crashedAt = "none"
  /\ attempts = <<>>
  /\ nonEmptyAtStart = {}
  /\ streak = <<>>
  /\ starve = [x \in 0..2 |-> 0]
  /\ polls = 0
  /\ arrival = "none"
  /\ callResult = "none"
  /\ backend = "sqs"
  /\ priorityQueueUrl = TRUE
  /\ entityQueues \in EntityQueueConfigs
  /\ processMethod = "log"
  /\ faults \in {"none", "queue"}
  /\ history = TRUE

NextS3 ==
  \/ MainLoop
  \/ RecvPriority
  \/ RecvEntity
  \/ ProcessLog
  \/ AfterHandlerSqs
  \/ DeleteDone
  \/ ArrivePriority

SpecS3 == InitS3 /\ [][NextS3]_vars

\* ------------------------------------------------------------------------
\* Properties of the polling order
\* ------------------------------------------------------------------------
IsPrefix(s, t) == Len(s) <= Len(t) /\ \A j \in 1..Len(s) : s[j] = t[j]

Count(seq, from, len, x) == Cardinality({j \in from..(from + len - 1) : seq[j] = x})

\* C4: with a priority queue configured, every poll receives from the
\* priority queue before any entity queue, and a poll whose priority receive
\* returned a message hands over that message without receiving from any
\* entity queue.
C4_PriorityStrictlyPreferred ==
  priorityQueueUrl =>
    /\ attempts # <<>> => attempts[1].queue = PriorityQueue
    /\ \A a \in 1..Len(attempts) :
         (attempts[a].queue = PriorityQueue /\ attempts[a].result = "msg") =>
           /\ Len(attempts) = 1
           /\ pc = "process"
           /\ cur.queue = PriorityQueue

C4_Witness ==
  /\ priorityQueueUrl
  /\ pc = "process"
  /\ cur.queue = PriorityQueue
  /\ \E x \in 1..K : HasVisible(sqs, entityQueues[x])

\* C5: without a priority queue, over any k*N consecutive polls in which
\* every receive returned a message (all k entity queues non-empty, no
\* failed receive), each of the k entity queues is selected exactly N times.
C5_RoundRobinExact ==
  ~priorityQueueUrl =>
    \A n \in 1..MaxDeliveries : \A f \in 1..Len(streak) :
      (f + K * n - 1 <= Len(streak)) =>
        \A x \in 0..(K - 1) : Count(streak, f, K * n, x) = n

C5_Witness ==
  /\ ~priorityQueueUrl
  /\ K = 2
  /\ Len(streak) = 2
  /\ nonEmptyAtStart = {0, 1}

\* C6: an entity queue that holds a visible message at the start of every
\* poll, and whose receive does not fail, loses at most k-1 successful
\* entity polls to other queues before it is selected.
C6_NoStarvation ==
  \A x \in 0..(K - 1) : starve[x] <= K - 1

C6_Witness ==
  /\ K = 3
  /\ \E x \in 0..2 : starve[x] = 2

\* C7 as stated: the priority message arrives at any moment of the first
\* poll, and the three messages are processed priority first, then the two
\* default messages in FIFO order.
C7_AsStated ==
  (faults = "none" /\ arrival \in {"during_priority_receive", "after_priority_receive"}) =>
    IsPrefix(order, <<MsgC, MsgA, MsgB>>)

\* C7 amended: the order holds when the priority message arrives before the
\* priority receive of the first poll has returned.
C7_PriorityBeforeReceiveReturns ==
  (faults = "none" /\ arrival \in {"before_first_poll", "during_priority_receive"}) =>
    IsPrefix(order, <<MsgC, MsgA, MsgB>>)

C7_Witness ==
  /\ faults = "none"
  /\ arrival = "during_priority_receive"
  /\ order = <<MsgC, MsgA, MsgB>>

\* ------------------------------------------------------------------------
\* Acknowledgement, metrics, restart and the single-job loop
\* ------------------------------------------------------------------------
\* Where the worker is, or was when the process crashed.
Position == IF pc = "crashed" THEN crashedAt ELSE pc

\* A step in which the worker's continuation runs (not a step of the queue
\* service or of a producer, and not the crash of the process).
WorkerResumes == pc' # pc /\ pc' # "crashed"

InQueue(m) == \E j \in 1..Len(sqs[m.queue]) : sqs[m.queue][j].id = m.id

\* C1: in the cloud adapter a DeleteMessage is sent for a delivery only once
\* the handler invoked for it has returned: while the delivery is being
\* decoded or its handler runs no DeleteMessage has been sent for it, and
\* when the process crashes at such a point the message is still in its
\* queue.
C1_AckOnlyAfterHandlerReturned ==
  backend = "sqs" =>
    /\ cur.delivery \in deleteSent => handlerResult = "returned"
    /\ Position \in HandlerPcs \cup {"process", "handler_settled"} =>
         /\ cur.delivery \notin deleteSent
         /\ InQueue(cur)
    /\ \A d \in deleteSent : d <= Deliveries

C1_Witness ==
  /\ backend = "sqs"
  /\ pc = "crashed"
  /\ crashedAt \in HandlerPcs
  /\ deleteSent # {}
  /\ cur.delivery \notin deleteSent
  /\ InQueue(cur)

\* C2 as stated: when the handler raised, the cloud adapter increments
\* failures_total and sends the DeleteMessage of the delivery.
C2_AsStated ==
  [][(backend = "sqs" /\ pc = "handler_settled" /\ handlerResult = "raised"
      /\ WorkerResumes)
     => /\ failures_total' = failures_total + 1
        /\ cur.delivery \in deleteSent']_vars

\* What the cloud adapter does when the handler raised: it increments
\* failures_total, sends no DeleteMessage for the delivery and returns to the
\* main loop; the message stays in its queue, in flight until its visibility
\* timeout.
RaisedHandlerCountedNotAcked ==
  [][(backend = "sqs" /\ pc = "handler_settled" /\ handlerResult = "raised"
      /\ WorkerResumes)
     => /\ failures_total' = failures_total + 1
        /\ deleteSent' = deleteSent
        /\ cur.delivery \notin deleteSent
        /\ sqs' = sqs
        /\ InQueue(cur)
        /\ pc' = "main_loop"]_vars

RaisedHandlerLeftInQueue ==
  /\ backend = "sqs"
  /\ pc = "main_loop"
  /\ Deliveries = 1
  /\ failures_total = 1
  /\ deleteSent = {}
  /\ \E j \in 1..Len(sqs[SceneQueue]) :
       /\ sqs[SceneQueue][j].id = order[1]
       /\ sqs[SceneQueue][j].body = "noEntity"
       /\ sqs[SceneQueue][j].inflight

C8_OneObservationPerDelivery ==
  pc # "crashed" =>
    observations = Deliveries - (IF cur = NoMsg THEN 0 ELSE 1)

C8_Witness ==
  /\ backend = "sqs"
  /\ processMethod = "godot_optimizer"
  /\ pc = "main_loop"
  /\ Deliveries = 2
  /\ observations = 2
  /\ failures_total = 1
  /\ Cardinality(deleteSent) = 1

C10_SingleJobAtATime ==
  /\ activeHandlers <= 1
  /\ Position \in {"main_loop", "recv_priority", "recv_entity", "mem_next", "process",
                   "deleting"} => activeHandlers = 0
  /\ activeHandlers = 1 => Position \in HandlerPcs /\ cur # NoMsg

C10_Witness ==
  /\ pc = "sc_batch"
  /\ activeHandlers = 1
  /\ Deliveries = 2
  /\ Cardinality(ActiveChains) = 2
  /\ \E qn \in ConfiguredQueues : HasVisible(sqs, qn)

\* ------------------------------------------------------------------------
\* Reports and artifacts in storage
\* ------------------------------------------------------------------------
HasReport == \E o \in storage : o.key = "report.json"

\* C11 as stated: whenever a pipeline invocation is over (the handler has
\* settled and the dispatcher is about to move on), on whatever exit path,
\* the report object of the job is present in storage.
C11_AsStated ==
  (pc = "handler_settled" /\ pipelineEntered) => HasReport

\* What the code does: storeReport runs on every exit path of a pipeline and
\* the report is in storage afterwards unless its upload failed; a failed
\* upload is logged by storeFile and the pipeline goes on without a report.
ReportStoredUnlessUploadFails ==
  [][/\ (pipelineEntered /\ Position \in {"restart_kill", "restart_poll", "handler_settled"}
         /\ ~StorageFaults) => ReportObject(report) \in storage
     /\ (pc = "report" /\ WorkerResumes) =>
          storage' \in {storage, storage \cup {ReportObject(report)}}
     /\ (pc \in HandlerPcs \ {"report"} /\ WorkerResumes /\ ~HasReport) => ~HasReport'
    ]_vars

ReportMissingAfterFailedUpload ==
  /\ pc = "handler_settled"
  /\ pipelineEntered
  /\ ~pipelineRaised
  /\ report = "success"
  /\ ~HasReport

\* Assets the scene pipeline has counted as successful
\* (individualAssets.successful++, individualZips.push(s3Key)).
CountedSuccessful == {a \in 1..Len(chains) : chains[a] = "ok"}

\* Every object the pipelines store is keyed `<hash>-mobile.zip` or
\* `<entityId>-report.json`.
KeySuffixesFixed == \A o \in storage : o.key \in {"mobile.zip", "report.json"}

\* C12 as stated: for every asset the scene pipeline counts as successful,
\* storage holds `<hash>-mobile.zip` of that asset, and no artifact is stored
\* under another suffix.
C12_AsStated ==
  /\ \A a \in CountedSuccessful : AssetZip(a) \in storage
  /\ KeySuffixesFixed

\* What the code does: the key suffixes are fixed, and an asset counted as
\* successful has its ZIP in storage unless the upload failed (storeFile
\* logs a failed upload and returns, the chain counts the asset anyway).
SuccessfulAssetStoredUnlessUploadFails ==
  /\ KeySuffixesFixed
  /\ ~StorageFaults => \A a \in CountedSuccessful : AssetZip(a) \in storage
  /\ \A o \in storage :
       (o.key = "mobile.zip" /\ o.of >= 1 /\ cur.body = "scene") => o.of \in CountedSuccessful

SuccessfulAssetMissing ==
  /\ pc = "report"
  /\ report = "success"
  /\ nAssets = 2
  /\ CountedSuccessful = {1, 2}
  /\ AssetZip(1) \in storage
  /\ AssetZip(2) \notin storage

\* C13: during Phase B the per-asset chains in flight (submitted, waiting
\* or uploading) are at most concurrentBundles, all of the current batch,
\* whatever the number of assets.
C13_ChainsWithinConcurrentBundles ==
  /\ Cardinality(ActiveChains) <= concurrentBundles
  /\ ActiveChains \subseteq Batch(batchStart)
  /\ ActiveChains # {} => Position = "sc_batch"

C13_Witness ==
  /\ pc = "sc_batch"
  /\ concurrentBundles = 1
  /\ nAssets = 2
  /\ chains = <<"failed", "wait">>

\* ---------------------------------------------------------------------------
\* The retrying fetch component (src/adapters/fetch.ts), one call on its own.
\* ---------------------------------------------------------------------------

MaxRetriesExplored == 3     \* largest FETCH_MAX_RETRIES explored
JitterSteps == 4            \* Math.random() is drawn from {0, 1/4, 2/4, 3/4}

DefaultMaxRetries == 3
DefaultInitialDelayMs == 1000
DefaultMaxDelayMs == 30000
DefaultBackoffMultiplier == [num |-> 2, den |-> 1]

RETRYABLE_ERROR_CODES ==
  {"ENOTFOUND", "ETIMEDOUT", "ECONNRESET", "ECONNREFUSED", "EPIPE",
   "ENETUNREACH", "EHOSTUNREACH", "EAI_AGAIN"}

RETRYABLE_HTTP_STATUS == {408, 429, 500, 502, 503, 504}

\* What one request can come back with: a response with a status, or an
\* error with a name and possibly a code.  200 and 404 stand for the
\* statuses outside RETRYABLE_HTTP_STATUS; the abort of the per-attempt
\* timer is the error named AbortError; CERT_HAS_EXPIRED and the TypeError
\* without a code stand for the errors outside RETRYABLE_ERROR_CODES.
Response(status) == [kind |-> "response", status |-> status, name |-> "none", code |-> "none"]
Failure(name, code) == [kind |-> "error", status |-> 0, name |-> name, code |-> code]

AbortError == Failure("AbortError", "none")

Outcomes ==
  {Response(st) : st \in RETRYABLE_HTTP_STATUS \cup {200, 404}}
    \cup {Failure("FetchError", c) : c \in RETRYABLE_ERROR_CODES \cup {"CERT_HAS_EXPIRED"}}
    \cup {AbortError, Failure("TypeError", "none")}

EveryErrorRetryable(error) == TRUE

isRetryableError(error) == error.code \in RETRYABLE_ERROR_CODES

EveryStatusRetryable(status) == TRUE

isRetryableStatus(status) == status \in RETRYABLE_HTTP_STATUS

RECURSIVE Pow(_, _)
Pow(b, n) == IF n = 0 THEN 1 ELSE b * Pow(b, n - 1)

\* initialDelayMs * Math.pow(backoffMultiplier, attempt), as a fraction: the
\* multiplier is read with parseFloat and need not be whole.
ExponentialDelay(attempt, config) ==
  [num |-> config.initialDelayMs * Pow(config.backoffMultiplier.num, attempt),
   den |-> Pow(config.backoffMultiplier.den, attempt)]

Uncapped(attempt, config) == ExponentialDelay(attempt, config)

CappedDelay(attempt, config) ==
  LET e == ExponentialDelay(attempt, config)
  IN  IF e.num <= config.maxDelayMs * e.den
      THEN e
      ELSE [num |-> config.maxDelayMs, den |-> 1]

\* Math.floor(cappedDelay + cappedDelay * random * 0.25), random = rnd / JitterSteps
calculateDelay(attempt, config, rnd) ==
  LET c == CappedDelay(attempt, config)
  IN  (c.num * (4 * JitterSteps + rnd)) \div (c.den * 4 * JitterSteps)

JitterDraws == 0..(JitterSteps - 1)

DefaultFetchConfig ==
  [maxRetries |-> DefaultMaxRetries, initialDelayMs |-> DefaultInitialDelayMs,
   maxDelayMs |-> DefaultMaxDelayMs, backoffMultiplier |-> DefaultBackoffMultiplier]

\* FETCH_MAX_RETRIES is any integer parseInt yields; with -1 the loop body
\* never runs.
FetchConfigs ==
  {[DefaultFetchConfig EXCEPT !.maxRetries = m] : m \in (-1)..MaxRetriesExplored}

workerVars ==
  <<backend, priorityQueueUrl, entityQueues, processMethod, concurrentBundles,
    sqs, q, sent, faults, pc, isRunning, currentQueueIndex, i, cur,
    handlerResult, raised, report, nAssets, batchStart, chains, godot,
    restarting, storage, failures_total, observations, deleteSent, order,
    activeHandlers, restarts, pipelineEntered, pipelineRaised, crashedAt,
    attempts, nonEmptyAtStart, streak, starve, polls, history, arrival, callResult>>

\* fetch(url) is called: attempt = 0, lastError undefined.
FetchCalled(config) ==
  [pc |-> "loop", config |-> config, attempt |-> 0, seen |-> <<>>,
   sleeps |-> 0, delay |-> 0, result |-> Response(0)]

\* The body of the for loop up to its await sleep, return or throw.
FetchAttempt ==
  /\ fetcher.pc = "loop"
  /\ fetcher.attempt <= fetcher.config.maxRetries
  /\ \E o \in Outcomes, rnd \in JitterDraws :
       LET retry == /\ fetcher.attempt < fetcher.config.maxRetries
                    /\ IF o.kind = "response"
                       THEN isRetryableStatus(o.status)
                       ELSE o.name = "AbortError" \/ isRetryableError(o)
           saw == [fetcher EXCEPT !.seen = Append(@, o)]
       IN  fetcher' =
             IF retry
             THEN [saw EXCEPT !.pc = "sleep",
                              !.delay = calculateDelay(fetcher.attempt, fetcher.config, rnd),
                              !.sleeps = @ + 1]
             ELSE [saw EXCEPT !.pc = IF o.kind = "response" THEN "returned" ELSE "raised",
                              !.result = o]
  /\ UNCHANGED <<workerVars, batchStore, waiter, reporter, envelope, scene, restart, profile>>

\* The sleep is over: continue, attempt++.
FetchContinue ==
  /\ fetcher.pc = "sleep"
  /\ fetcher' = [fetcher EXCEPT !.pc = "loop", !.attempt = @ + 1, !.delay = 0]
  /\ UNCHANGED <<workerVars, batchStore, waiter, reporter, envelope, scene, restart, profile>>

\* The loop condition is false: the throw after the loop.
FetchLoopOver ==
  /\ fetcher.pc = "loop"
  /\ fetcher.attempt > fetcher.config.maxRetries
  /\ fetcher' = [fetcher EXCEPT !.pc = "raised",
                                !.result = Failure("Error", "none")]
  /\ UNCHANGED <<workerVars, batchStore, waiter, reporter, envelope, scene, restart, profile>>

\* The worker takes no step while a component is studied on its own.
WorkerAbsent ==
  /\ InitWorker
  /\ concurrentBundles = 1
  /\ godot = "ready"
  /\ backend = "memory"
  /\ priorityQueueUrl = FALSE
  /\ entityQueues = <<SceneQueue>>
  /\ processMethod = "log"
  /\ faults = "none"
  /\ history = FALSE

InitFetch ==
  /\ WorkerAbsent
  /\ restart = Idle
  /\ profile = Idle
  /\ scene = Idle
  /\ reporter = Idle
  /\ envelope = Idle
  /\ batchStore = Idle
  /\ waiter = Idle
  /\ fetcher \in {FetchCalled(c) : c \in FetchConfigs}

NextFetch ==
  \/ FetchAttempt
  \/ FetchContinue
  \/ FetchLoopOver

SpecFetch == InitFetch /\ [][NextFetch]_vars

Last(seq) == seq[Len(seq)]

EndsInFinalResponse ==
  /\ fetcher.pc # "idle"
  /\ fetcher.seen # <<>>
  /\ Last(fetcher.seen).kind = "response"
  /\ Last(fetcher.seen).status \notin RETRYABLE_HTTP_STATUS

\* C14: whenever the responses and errors a fetch call has met end in a
\* response whose status is not retryable (2xx included), the call has made
\* at most maxRetries + 1 attempts and has returned exactly that response;
\* with the defaults (3 retries) and 503, 503, 200 that is three attempts
\* and the 200 response.
C14_FinalResponseReturnedWithinBudget ==
  /\ fetcher.pc # "idle" => Len(fetcher.seen) <= fetcher.config.maxRetries + 1
  /\ EndsInFinalResponse =>
       /\ fetcher.pc = "returned"
       /\ fetcher.result = Last(fetcher.seen)
  /\ (fetcher.pc # "idle" /\ fetcher.seen = <<Response(503), Response(503)>>
        /\ fetcher.config.maxRetries = DefaultMaxRetries)
       => fetcher.pc \in {"sleep", "loop"}

C14_Witness ==
  /\ fetcher.pc = "returned"
  /\ fetcher.config = DefaultFetchConfig
  /\ fetcher.seen = <<Response(503), Response(503), Response(200)>>
  /\ fetcher.result = Response(200)
  /\ fetcher.attempt = 2

\* ---- calculateDelay on its own: every configuration, attempt and draw ----

\* FETCH_INITIAL_DELAY_MS, FETCH_BACKOFF_MULTIPLIER and FETCH_MAX_DELAY_MS
\* as an operator may set them, the defaults among them.
DelayConfigs ==
  {[maxRetries |-> MaxRetriesExplored, initialDelayMs |-> d, maxDelayMs |-> m,
    backoffMultiplier |-> b] :
     d \in {1, 3, DefaultInitialDelayMs},
     m \in {2, 1500, DefaultMaxDelayMs},
     b \in {[num |-> 1, den |-> 1], [num |-> 3, den |-> 2], DefaultBackoffMultiplier}}

\* The retry branch is about to compute the delay after attempt n.
InitDelay ==
  /\ WorkerAbsent
  /\ restart = Idle
  /\ profile = Idle
  /\ scene = Idle
  /\ reporter = Idle
  /\ envelope = Idle
  /\ batchStore = Idle
  /\ waiter = Idle
  /\ fetcher \in {[pc |-> "delay", config |-> c, attempt |-> n, rnd |-> r, delay |-> 0] :
                    c \in DelayConfigs, n \in 0..(MaxRetriesExplored - 1), r \in JitterDraws}

ComputeDelay ==
  /\ fetcher.pc = "delay"
  /\ fetcher' = [fetcher EXCEPT !.pc = "sleep",
                                !.delay = calculateDelay(fetcher.attempt, fetcher.config, fetcher.rnd)]
  /\ UNCHANGED <<workerVars, batchStore, waiter, reporter, envelope, scene, restart, profile>>

NextDelay == ComputeDelay

SpecDelay == InitDelay /\ [][NextDelay]_vars

\* C15 as stated: the sleep after attempt n lies between
\* initial * multiplier^n and initial * multiplier^n * 1.25, whatever the
\* configuration.
C15_AsStated ==
  fetcher.pc = "sleep" =>
    LET e == ExponentialDelay(fetcher.attempt, fetcher.config)
    IN  /\ fetcher.delay * e.den >= e.num
        /\ fetcher.delay * 4 * e.den <= 5 * e.num

\* C15: the sleep after attempt n lies between the whole part of
\* min(initial * multiplier^n, max) and 1.25 times min(initial * multiplier^n, max);
\* it reaches initial * multiplier^n itself when that is a whole number no
\* larger than max.
C15_SleepWithinCappedWindow ==
  fetcher.pc = "sleep" =>
    LET e == ExponentialDelay(fetcher.attempt, fetcher.config)
        max == fetcher.config.maxDelayMs
    IN  /\ fetcher.delay * 4 * e.den <= 5 * e.num
        /\ fetcher.delay * 4 <= 5 * max
        /\ e.num <= max * e.den => fetcher.delay >= e.num \div e.den
        /\ e.num > max * e.den => fetcher.delay >= max
        /\ (e.den = 1 /\ e.num <= max) => fetcher.delay >= e.num

\* The cap applies: 1000 * 2^1 = 2000 ms is cut to the maximum of 1500 ms.
C15_Witness ==
  /\ fetcher.pc = "sleep"
  /\ fetcher.attempt = 1
  /\ fetcher.config.initialDelayMs = DefaultInitialDelayMs
  /\ fetcher.config.backoffMultiplier = DefaultBackoffMultiplier
  /\ fetcher.config.maxDelayMs = 1500
  /\ fetcher.delay < 2000
  /\ fetcher.delay >= 1500

Met == fetcher.pc \in {"loop", "sleep", "returned", "raised"} /\ fetcher.seen # <<>>

ListedTransient(o) ==
  \/ o.kind = "response" /\ o.status \in {408, 429, 500, 502, 503, 504}
  \/ o.kind = "error" /\ o.code \in {"ENOTFOUND", "ETIMEDOUT", "ECONNRESET", "ECONNREFUSED",
                                     "EPIPE", "ENETUNREACH", "EHOSTUNREACH", "EAI_AGAIN"}

\* C16 as stated: a sleep follows only a listed status or a listed error
\* code; any other response is returned and any other error raised by the
\* attempt that met it.
C16_AsStated ==
  Met =>
    LET o == Last(fetcher.seen)
    IN  /\ fetcher.pc = "sleep" => ListedTransient(o)
        /\ ~ListedTransient(o) =>
             /\ fetcher.pc = (IF o.kind = "response" THEN "returned" ELSE "raised")
             /\ fetcher.result = o
             /\ fetcher.sleeps = Len(fetcher.seen) - 1

\* C16: a sleep follows only a listed status, a listed error code or the
\* abort of the per-attempt timeout, and only while retries are left; any
\* other response is returned and any other error raised by the attempt that
\* met it, with no sleep and no further attempt.
C16_RetriesOnlyOnTransientOrTimeout ==
  Met =>
    LET o == Last(fetcher.seen)
        transient == ListedTransient(o) \/ o = AbortError
    IN  /\ fetcher.pc = "sleep" =>
             transient /\ Len(fetcher.seen) <= fetcher.config.maxRetries
        /\ ~transient =>
             /\ fetcher.pc = (IF o.kind = "response" THEN "returned" ELSE "raised")
             /\ fetcher.result = o
             /\ fetcher.sleeps = Len(fetcher.seen) - 1
             /\ fetcher.attempt = Len(fetcher.seen) - 1

\* A timeout is retried, then a 404 is returned by the attempt that met it.
C16_Witness ==
  /\ fetcher.pc = "returned"
  /\ fetcher.seen = <<AbortError, Response(404)>>
  /\ fetcher.result = Response(404)
  /\ fetcher.sleeps = 1

Transient(o) == ListedTransient(o) \/ o = AbortError

ExhaustedOnTransient ==
  /\ fetcher.pc \in {"returned", "raised"}
  /\ fetcher.seen # <<>>
  /\ Len(fetcher.seen) = fetcher.config.maxRetries + 1
  /\ \A k \in 1..Len(fetcher.seen) : Transient(fetcher.seen[k])

\* C17 as stated: a call whose every attempt met a transient failure ends
\* by raising an error that carries the kind of the last failure; the
\* caller never sees the transient failure in another form.
C17_AsStated ==
  ExhaustedOnTransient =>
    /\ fetcher.pc = "raised"
    /\ fetcher.result.kind = "error"

\* What the code does keep: an error met on the last attempt is raised as
\* it is, the abort of the timer (AbortError) apart from the coded errors.
LastErrorRaisedUnchanged ==
  (ExhaustedOnTransient /\ Last(fetcher.seen).kind = "error") =>
    /\ fetcher.pc = "raised"
    /\ fetcher.result = Last(fetcher.seen)

\* A retryable status met on the last attempt is returned as a response.
TransientStatusReturnedAfterBudget ==
  /\ fetcher.pc = "returned"
  /\ fetcher.config = DefaultFetchConfig
  /\ fetcher.seen = <<Response(503), Response(503), Response(503), Response(503)>>
  /\ fetcher.result = Response(503)

\* ---------------------------------------------------------------------------
\* The storage components (src/adapters/storage.ts), one call on its own,
\* made on each backend with the same files and the same write outcomes.
\* ---------------------------------------------------------------------------

MaxFiles == 2               \* files of one storeFiles call
UploadAttempts == 3

\* script[f][a]: does the a-th write of file f succeed (the upload to the
\* bucket, or readFile/mkdir/writeFile on the local disk).
Scripts(n) == [1..n -> [1..UploadAttempts -> BOOLEAN]]

Started == [pc |-> "for", file |-> 0, attempt |-> 0, success |-> FALSE,
            stored |-> {}, tries |-> 0, error |-> "none", logged |-> "none"]

\* Where a write that fails does so: reading the source file (createReadStream
\* / readFile) or sending it (upload.done() / mkdir, writeFile).
StoreFaults == {"read", "write"}

StoreCallsOf(op, faults_) ==
  {[op |-> op, n |-> n, script |-> s, s3 |-> Started, local |-> Started,
    fault |-> ft,
    settled |-> IF op = "storeFiles" THEN Started ELSE [Started EXCEPT !.pc = "absent"]] :
     ft \in faults_, n \in 1..MaxFiles, s \in Scripts(MaxFiles)}

StoreCalls == StoreCallsOf("storeFile", StoreFaults) \cup StoreCallsOf("storeFiles", {"write"})

\* What the logger receives at the end of storeFile.
StoreLog(ok, fault) == IF ok THEN "info_stored" ELSE "error_" \o fault

\* The catch block of storeFile logs the error and falls through to the end
\* of the function.
Rethrown(ok) == IF ok THEN "returned" ELSE "raised"
CaughtAndLogged(ok) == "returned"

Written(stored, f, ok) == IF ok THEN stored \cup {f} ELSE stored

\* storeFile of either backend: one write, its error logged and swallowed.
storeFile(inst, f, ok) ==
  [inst EXCEPT !.stored = Written(@, f, ok), !.tries = @ + 1]

S3StoreFile ==
  /\ batchStore.pc = "called" /\ batchStore.op = "storeFile"
  /\ batchStore.s3.pc = "for"
  /\ batchStore' = [batchStore EXCEPT
       !.s3 = [storeFile(@, 1, batchStore.script[1][1]) EXCEPT
                  !.pc = CaughtAndLogged(batchStore.script[1][1]),
                  !.logged = StoreLog(batchStore.script[1][1], batchStore.fault)]]
  /\ UNCHANGED <<workerVars, fetcher, waiter, reporter, envelope, scene, restart, profile>>

LocalStoreFile ==
  /\ batchStore.pc = "called" /\ batchStore.op = "storeFile"
  /\ batchStore.local.pc = "for"
  /\ batchStore' = [batchStore EXCEPT
       !.local = [storeFile(@, 1, batchStore.script[1][1]) EXCEPT
                  !.pc = CaughtAndLogged(batchStore.script[1][1]),
                  !.logged = StoreLog(batchStore.script[1][1], batchStore.fault)]]
  /\ UNCHANGED <<workerVars, fetcher, waiter, reporter, envelope, scene, restart, profile>>

\* storeFiles of the bucket backend: the head of the for loop.
S3NextFile ==
  /\ batchStore.pc = "called" /\ batchStore.op = "storeFiles"
  /\ batchStore.s3.pc = "for"
  /\ batchStore' = [batchStore EXCEPT !.s3 =
       IF @.file = batchStore.n
       THEN [@ EXCEPT !.pc = "returned"]
       ELSE [@ EXCEPT !.pc = "while", !.file = @ + 1, !.attempt = 0, !.success = FALSE]]
  /\ UNCHANGED <<workerVars, fetcher, waiter, reporter, envelope, scene, restart, profile>>

RetryUpload(attempt, success) == attempt < UploadAttempts /\ ~success

\* One turn of the while loop: an upload, awaited.
S3Upload ==
  /\ batchStore.pc = "called"
  /\ batchStore.s3.pc = "while"
  /\ RetryUpload(batchStore.s3.attempt, batchStore.s3.success)
  /\ LET ok == batchStore.script[batchStore.s3.file][batchStore.s3.attempt + 1]
     IN  batchStore' = [batchStore EXCEPT !.s3 =
           [@ EXCEPT !.stored = Written(@, batchStore.s3.file, ok),
                     !.tries = @ + 1,
                     !.success = ok,
                     !.attempt = IF ok THEN @ ELSE @ + 1]]
  /\ UNCHANGED <<workerVars, fetcher, waiter, reporter, envelope, scene, restart, profile>>

\* The while loop is over: throw naming the file, or go on to the next file.
S3AfterWhile ==
  /\ batchStore.pc = "called"
  /\ batchStore.s3.pc = "while"
  /\ ~RetryUpload(batchStore.s3.attempt, batchStore.s3.success)
  /\ batchStore' = [batchStore EXCEPT !.s3 =
       IF ~@.success
       THEN [@ EXCEPT !.pc = "raised",
                      !.error = [kind |-> "file", file |-> batchStore.s3.file,
                                 failed |-> 0]]
       ELSE [@ EXCEPT !.pc = "for"]]
  /\ UNCHANGED <<workerVars, fetcher, waiter, reporter, envelope, scene, restart, profile>>

\* storeFiles of the local backend: await this.storeFile for the next file,
\* or the end of the loop.
LocalStoreFiles ==
  /\ batchStore.pc = "called" /\ batchStore.op = "storeFiles"
  /\ batchStore.local.pc = "for"
  /\ batchStore' = [batchStore EXCEPT !.local =
       IF @.file = batchStore.n
       THEN [@ EXCEPT !.pc = "returned"]
       ELSE [storeFile(@, @.file + 1, batchStore.script[@.file + 1][1])
               EXCEPT !.file = @ + 1]]
  /\ UNCHANGED <<workerVars, fetcher, waiter, reporter, envelope, scene, restart, profile>>

\* The storeFiles that settles all uploads at once (Promise.allSettled), one
\* write per file, and throws the number of rejected ones.
SettledStoreFiles ==
  /\ batchStore.pc = "called"
  /\ batchStore.settled.pc = "for"
  /\ LET rejected == {f \in 1..batchStore.n : ~batchStore.script[f][1]}
         failed == Cardinality(rejected)
     IN  batchStore' = [batchStore EXCEPT !.settled =
           [@ EXCEPT !.stored = (1..batchStore.n) \ rejected,
                     !.tries = batchStore.n,
                     !.file = batchStore.n,
                     !.pc = IF failed > 0 THEN "raised" ELSE "returned",
                     !.error = IF failed > 0
                               THEN [kind |-> "count", file |-> 0, failed |-> failed]
                               ELSE "none"]]
  /\ UNCHANGED <<workerVars, fetcher, waiter, reporter, envelope, scene, restart, profile>>

InitStore ==
  /\ WorkerAbsent
  /\ restart = Idle
  /\ profile = Idle
  /\ scene = Idle
  /\ reporter = Idle
  /\ envelope = Idle
  /\ fetcher = Idle
  /\ waiter = Idle
  /\ batchStore \in {[pc |-> "called"] @@ c : c \in StoreCalls}

NextStore ==
  \/ S3StoreFile
  \/ LocalStoreFile
  \/ S3NextFile
  \/ S3Upload
  \/ S3AfterWhile
  \/ LocalStoreFiles
  \/ SettledStoreFiles

SpecStore == InitStore /\ [][NextStore]_vars

BatchCall == batchStore.pc = "called" /\ batchStore.op = "storeFiles"

PermanentlyFailed ==
  {f \in 1..batchStore.n : \A a \in 1..UploadAttempts : ~batchStore.script[f][a]}

\* C18 as stated: storeFiles of the bucket backend returns only when every
\* file of the batch is stored, no file gets more than 3 uploads, and when
\* a file has failed 3 times the call raises an error that reports how many
\* files failed.
C18_AsStated ==
  BatchCall =>
    /\ batchStore.s3.pc = "returned" => batchStore.s3.stored = 1..batchStore.n
    /\ batchStore.s3.tries <= UploadAttempts * batchStore.n
    /\ (batchStore.s3.pc \in {"returned", "raised"} /\ PermanentlyFailed # {})
         => batchStore.s3.pc = "raised"
    /\ batchStore.s3.pc = "raised" =>
         /\ batchStore.s3.error.kind = "count"
         /\ batchStore.s3.error.failed = Cardinality(PermanentlyFailed)

\* What storeFiles of the bucket backend does: it returns only when every
\* file is stored, and raises as soon as one file has failed 3 uploads,
\* naming that file and leaving the files after it untried.
BatchFailsNamingFirstFailedFile ==
  BatchCall =>
    /\ batchStore.s3.pc = "returned" =>
         batchStore.s3.stored = 1..batchStore.n /\ PermanentlyFailed = {}
    /\ batchStore.s3.pc = "raised" =>
         /\ batchStore.s3.error.kind = "file"
         /\ batchStore.s3.error.file \in PermanentlyFailed
         /\ \A f \in PermanentlyFailed : batchStore.s3.error.file <= f
         /\ batchStore.s3.stored = 1..(batchStore.s3.error.file - 1)

\* The variant that reports a count makes one upload per file.
SettledCountsSingleAttempts ==
  (BatchCall /\ batchStore.settled.pc = "raised") =>
    /\ batchStore.settled.error.kind = "count"
    /\ batchStore.settled.error.failed =
         Cardinality({f \in 1..batchStore.n : ~batchStore.script[f][1]})
    /\ batchStore.settled.tries = batchStore.n

BatchRaisedWithoutCount ==
  /\ BatchCall
  /\ batchStore.n = 2
  /\ PermanentlyFailed = {1, 2}
  /\ batchStore.s3.pc = "raised"
  /\ batchStore.s3.error.kind = "file"
  /\ batchStore.s3.tries = 3

Finished(inst) == inst.pc \in {"returned", "raised"}

\* C19 as stated: the bucket backend and the local backend, given the same
\* call and the same write outcomes, both return or both raise.
C19_AsStated ==
  (batchStore.pc = "called" /\ Finished(batchStore.s3) /\ Finished(batchStore.local))
    => batchStore.s3.pc = batchStore.local.pc

\* What does hold: storeFile returns on both backends whatever the write
\* does, and the local storeFiles never raises.
LocalNeverRaises ==
  batchStore.pc = "called" =>
    /\ batchStore.local.pc # "raised"
    /\ (batchStore.op = "storeFile" /\ Finished(batchStore.s3)) => batchStore.s3.pc = "returned"

BackendsDisagree ==
  /\ BatchCall
  /\ PermanentlyFailed # {}
  /\ batchStore.s3.pc = "raised"
  /\ batchStore.local.pc = "returned"

\* ---------------------------------------------------------------------------
\* waitForCompletion of the engine client (src/adapters/asset-server.ts), one
\* call on its own.  Time is counted in seconds.
\* ---------------------------------------------------------------------------

MaxTimeoutSeconds == 6      \* largest timeout explored
MaxPollSeconds == 3         \* longest a status request is taken to last
MaxLateSeconds == 1         \* how late the poll timer may fire

pollIntervalSeconds == 2

BatchStatuses == {"pending", "processing", "completed", "failed"}

WaitCalled(timeout) ==
  [pc |-> "while", timeout |-> timeout, startTime |-> 0, now |-> 0,
   checkedAt |-> 0, polls |-> 0, status |-> "none", error |-> "none"]

WithinDeadline(elapsed, timeout) == elapsed < timeout

\* The loop condition: another poll, or the throw after the loop.
WaitCheck ==
  /\ waiter.pc = "while"
  /\ waiter' =
       IF WithinDeadline(waiter.now - waiter.startTime, waiter.timeout)
       THEN [waiter EXCEPT !.pc = "getBatchStatus", !.checkedAt = waiter.now]
       ELSE [waiter EXCEPT !.pc = "raised", !.error = "timeout"]
  /\ UNCHANGED <<workerVars, fetcher, batchStore, reporter, envelope, scene, restart, profile>>

\* await getBatchStatus: the request lasts some time and yields a status,
\* or throws (a response that is not ok, or an error of the fetcher).
WaitPoll ==
  /\ waiter.pc = "getBatchStatus"
  /\ \E took \in 0..MaxPollSeconds, answer \in BatchStatuses \cup {"throws"} :
       LET at == [waiter EXCEPT !.now = @ + took, !.polls = @ + 1]
       IN  waiter' =
             IF answer = "throws"
             THEN [at EXCEPT !.pc = "raised", !.error = "status"]
             ELSE IF answer \in {"completed", "failed"}
             THEN [at EXCEPT !.pc = "returned", !.status = answer]
             ELSE [at EXCEPT !.pc = "sleep", !.status = answer]
  /\ UNCHANGED <<workerVars, fetcher, batchStore, reporter, envelope, scene, restart, profile>>

\* The poll timer fires, no earlier than the interval.
WaitSleepOver ==
  /\ waiter.pc = "sleep"
  /\ \E late \in 0..MaxLateSeconds :
       waiter' = [waiter EXCEPT !.pc = "while", !.now = @ + pollIntervalSeconds + late]
  /\ UNCHANGED <<workerVars, fetcher, batchStore, reporter, envelope, scene, restart, profile>>

InitWait ==
  /\ WorkerAbsent
  /\ restart = Idle
  /\ profile = Idle
  /\ scene = Idle
  /\ reporter = Idle
  /\ envelope = Idle
  /\ fetcher = Idle
  /\ batchStore = Idle
  /\ waiter \in {WaitCalled(t) : t \in 1..MaxTimeoutSeconds}

NextWait ==
  \/ WaitCheck
  \/ WaitPoll
  \/ WaitSleepOver

SpecWait == InitWait /\ [][NextWait]_vars

Elapsed == waiter.now - waiter.startTime

\* C20 as stated: the call returns only `completed` or `failed`, raises the
\* timeout error only once the elapsed time has reached T, and returns less
\* than T + 2 s after it was called.
C20_AsStated ==
  /\ waiter.pc = "returned" =>
       /\ waiter.status \in {"completed", "failed"}
       /\ Elapsed < waiter.timeout + pollIntervalSeconds
  /\ (waiter.pc = "raised" /\ waiter.error = "timeout") => Elapsed >= waiter.timeout

\* What the code does keep: the deadline is looked at before each status
\* request only, so a return comes less than T after the call plus the time
\* the last status request took.
ReturnsWithinLastRequest ==
  /\ waiter.pc = "returned" =>
       /\ waiter.status \in {"completed", "failed"}
       /\ waiter.checkedAt - waiter.startTime < waiter.timeout
       /\ Elapsed <= (waiter.timeout - 1) + MaxPollSeconds
  /\ (waiter.pc = "raised" /\ waiter.error = "timeout") => Elapsed >= waiter.timeout

\* A status request begun just before the deadline returns after T + 2 s.
ReturnedPastGrace ==
  /\ waiter.pc = "returned"
  /\ waiter.timeout = 6
  /\ waiter.status = "completed"
  /\ Elapsed >= waiter.timeout + pollIntervalSeconds

\* ---------------------------------------------------------------------------
\* The monitoring reporter (src/adapters/monitoring-reporter.ts), one report on
\* its own, sent through the retrying fetch component.  Time is in ms.
\* ---------------------------------------------------------------------------

reportAbortMs == 5000
DefaultTimeoutMs == 60000

\* How long the monitoring endpoint takes to answer one request, when it
\* answers before the fetch component gives the attempt up.
AnswerDelays == {100, 4000, 6000, 59000}

ReportCalls ==
  {[kind |-> k, configured |-> c, running |-> r, caller |-> "calling",
    promise |-> "none", request |-> "none", now |-> 0, sentAt |-> 0,
    attemptAt |-> 0, attempt |-> 0, wakeAt |-> 0, callerAbort |-> "none",
    endedAt |-> 0, logged |-> FALSE] :
     k \in {"heartbeat", "jobComplete"}, c \in BOOLEAN, r \in BOOLEAN}

\* reportHeartbeat / reportJobComplete: report(...) is called and not
\* awaited; report runs up to its await fetch.fetch(...).
ReportCalled ==
  /\ reporter.pc = "report"
  /\ reporter.caller = "calling"
  /\ reporter' =
       IF reporter.kind = "heartbeat" /\ ~reporter.running
       THEN [reporter EXCEPT !.caller = "returned"]
       ELSE IF ~reporter.configured
       THEN [reporter EXCEPT !.caller = "returned", !.promise = "resolved"]
       ELSE [reporter EXCEPT !.caller = "returned", !.promise = "pending",
                             !.request = "inflight", !.sentAt = reporter.now,
                             !.attemptAt = reporter.now, !.callerAbort = "armed"]
  /\ UNCHANGED <<workerVars, fetcher, batchStore, waiter, envelope, scene, restart, profile>>

\* The signal the request is sent with: fetch spreads the caller's init and
\* then sets its own controller's signal.
RequestSignal == "fetch"

Rejects(outcome) == IF outcome = "response" THEN "resolved" ELSE "rejected"

\* The promise of report: the catch logs the error and swallows it.
ReportPromise(outcome) == "resolved"

\* The timer of report must fire before anything that happens after it.
TimerFirst(t) == reporter.callerAbort = "armed" => t < reporter.sentAt + reportAbortMs

\* One attempt of the fetch component ends at time t with outcome o.
AttemptEnds(t, o) ==
  \E rnd \in JitterDraws :
    LET retry == /\ reporter.attempt < DefaultMaxRetries
                 /\ IF o.kind = "response"
                    THEN isRetryableStatus(o.status)
                    ELSE o.name = "AbortError" \/ isRetryableError(o)
    IN  reporter' =
          IF retry
          THEN [reporter EXCEPT
                  !.now = t, !.request = "sleeping",
                  !.wakeAt = t + calculateDelay(reporter.attempt, DefaultFetchConfig, rnd)]
          ELSE [reporter EXCEPT
                  !.now = t, !.request = "done", !.endedAt = t,
                  !.promise = ReportPromise(o.kind),
                  !.logged = (o.kind = "error"),
                  !.callerAbort = IF o.kind = "response" /\ @ = "armed" THEN "cleared" ELSE @]

EndpointAnswers ==
  /\ reporter.pc = "report"
  /\ reporter.request = "inflight"
  /\ \E after \in AnswerDelays,
        o \in {Response(200), Response(503), Response(404),
               Failure("FetchError", "ECONNREFUSED"), Failure("TypeError", "none")} :
       /\ after < DefaultTimeoutMs
       /\ TimerFirst(reporter.attemptAt + after)
       /\ AttemptEnds(reporter.attemptAt + after, o)
  /\ UNCHANGED <<workerVars, fetcher, batchStore, waiter, envelope, scene, restart, profile>>

\* The endpoint does not answer: the fetch component's own timer aborts the
\* attempt.
FetchTimerFires ==
  /\ reporter.pc = "report"
  /\ reporter.request = "inflight"
  /\ TimerFirst(reporter.attemptAt + DefaultTimeoutMs)
  /\ AttemptEnds(reporter.attemptAt + DefaultTimeoutMs, Failure("AbortError", "none"))
  /\ UNCHANGED <<workerVars, fetcher, batchStore, waiter, envelope, scene, restart, profile>>

FetchWakes ==
  /\ reporter.pc = "report"
  /\ reporter.request = "sleeping"
  /\ TimerFirst(reporter.wakeAt)
  /\ reporter' = [reporter EXCEPT !.now = reporter.wakeAt, !.request = "inflight",
                                  !.attemptAt = reporter.wakeAt, !.attempt = @ + 1]
  /\ UNCHANGED <<workerVars, fetcher, batchStore, waiter, envelope, scene, restart, profile>>

\* setTimeout(() => controller.abort(), 5000) of report fires.
ReportTimerFires ==
  /\ reporter.pc = "report"
  /\ reporter.callerAbort = "armed"
  /\ LET t == reporter.sentAt + reportAbortMs
         fired == [reporter EXCEPT !.now = t, !.callerAbort = "fired"]
     IN  reporter' =
           IF RequestSignal = "caller" /\ reporter.request = "inflight"
           THEN [fired EXCEPT !.request = "done", !.endedAt = t,
                              !.promise = ReportPromise("error"), !.logged = TRUE]
           ELSE fired
  /\ UNCHANGED <<workerVars, fetcher, batchStore, waiter, envelope, scene, restart, profile>>

InitReport ==
  /\ WorkerAbsent
  /\ restart = Idle
  /\ profile = Idle
  /\ scene = Idle
  /\ fetcher = Idle
  /\ batchStore = Idle
  /\ waiter = Idle
  /\ envelope = Idle
  /\ reporter \in {[pc |-> "report"] @@ c : c \in ReportCalls}

NextReport ==
  \/ ReportCalled
  \/ EndpointAnswers
  \/ FetchTimerFires
  \/ FetchWakes
  \/ ReportTimerFires

SpecReport == InitReport /\ [][NextReport]_vars

Reporting == reporter.pc = "report"

\* C21: reportHeartbeat and reportJobComplete return to their caller in the
\* step that calls report, before the request is answered or given up, and
\* whatever the endpoint does nothing is raised: the caller never waits, and
\* the promise of report never rejects.
C21_MonitoringNeverBlocksOrRaises ==
  Reporting =>
    /\ reporter.caller \in {"calling", "returned"}
    /\ reporter.request # "none" => reporter.caller = "returned"
    /\ reporter.promise # "rejected"
    /\ reporter.logged => reporter.promise = "resolved"

\* An endpoint that never answered: every attempt was given up, the error
\* was logged, the caller had returned long before.
C21_Witness ==
  /\ Reporting
  /\ reporter.kind = "jobComplete"
  /\ reporter.caller = "returned"
  /\ reporter.request = "done"
  /\ reporter.attempt = DefaultMaxRetries
  /\ reporter.logged
  /\ reporter.promise = "resolved"
  /\ reporter.endedAt >= 4 * DefaultTimeoutMs

\* C30 as stated: a monitoring request is over, by an abort if need be, no
\* later than 5 s after it was sent.
C30_AsStated ==
  Reporting =>
    /\ reporter.request \in {"inflight", "sleeping"} => reporter.now - reporter.sentAt <= reportAbortMs
    /\ reporter.request = "done" => reporter.endedAt - reporter.sentAt <= reportAbortMs

\* What bounds a monitoring request is the fetch component: 60 s for each of
\* its four attempts and the three sleeps between them.
RequestEndsWithinFetchBudget ==
  (Reporting /\ reporter.request # "none") =>
    reporter.now - reporter.sentAt <= 4 * DefaultTimeoutMs + 1250 + 2500 + 5000

ReportOutlivesItsTimer ==
  /\ Reporting
  /\ reporter.callerAbort = "fired"
  /\ reporter.request = "inflight"
  /\ reporter.now - reporter.sentAt > DefaultTimeoutMs

\* ---------------------------------------------------------------------------
\* The envelope of the cloud queue adapter (src/adapters/sqs.ts): publish
\* wraps the job, consumeAndProcessJob unwraps it.  JSON texts are sequences
\* of characters; `true` and `false` are single tokens.
\* ---------------------------------------------------------------------------

MaxStrLen == 2              \* longest entityId explored

\* Characters of a job's strings: a letter, the quote, the backslash and the
\* line feed (the last three are escaped by JSON.stringify).
Chars == {"n", "\"", "\\", "LF"}

RECURSIVE StringsUpTo(_)
StringsUpTo(n) ==
  IF n = 0 THEN {<<>>}
  ELSE StringsUpTo(n - 1) \cup {Append(w, c) : w \in StringsUpTo(n - 1), c \in Chars}

Str(w) == [t |-> "str", v |-> w]
Bool(b) == [t |-> "bool", v |-> b]
Arr(items) == [t |-> "arr", v |-> items]
Obj(members) == [t |-> "obj", v |-> members]

\* The jobs published: { entity: { entityId, authChain: [] },
\* contentServerUrls?: [url], force?: boolean }.
Jobs ==
  {Obj(<<<<<<"e">>, Obj(<<<<<<"i">>, Str(id)>>, <<<<"a">>, Arr(<<>>)>>>>)>>>> \o urls \o force) :
     id \in StringsUpTo(MaxStrLen),
     urls \in {<<>>} \cup {<<<<<<"c">>, Arr(us)>>>> :
                 us \in {<<>>} \cup {<<Str(u)>> : u \in StringsUpTo(1)}},
     force \in {<<>>} \cup {<<<<<<"f">>, Bool(b)>>>> : b \in BOOLEAN}}

EscapedChar(c) ==
  IF c = "\"" THEN <<"\\", "\"">>
  ELSE IF c = "\\" THEN <<"\\", "\\">>
  ELSE IF c = "LF" THEN <<"\\", "n">>
  ELSE <<c>>

RECURSIVE Escaped(_)
Escaped(w) == IF w = <<>> THEN <<>> ELSE EscapedChar(Head(w)) \o Escaped(Tail(w))

Quoted(w) == <<"\"">> \o Escaped(w) \o <<"\"">>

\* JSON.stringify
RECURSIVE stringify(_)
RECURSIVE StringifyItems(_)
RECURSIVE StringifyMembers(_)
StringifyItems(items) ==
  IF items = <<>> THEN <<>>
  ELSE stringify(Head(items)) \o
       (IF Tail(items) = <<>> THEN <<>> ELSE <<",">> \o StringifyItems(Tail(items)))
StringifyMembers(members) ==
  IF members = <<>> THEN <<>>
  ELSE Quoted(Head(members)[1]) \o <<":">> \o stringify(Head(members)[2]) \o
       (IF Tail(members) = <<>> THEN <<>> ELSE <<",">> \o StringifyMembers(Tail(members)))
stringify(val) ==
  CASE val.t = "str" -> Quoted(val.v)
    [] val.t = "bool" -> IF val.v THEN <<"true">> ELSE <<"false">>
    [] val.t = "arr" -> <<"[">> \o StringifyItems(val.v) \o <<"]">>
    [] val.t = "obj" -> <<"{">> \o StringifyMembers(val.v) \o <<"}">>

UnescapedAsWritten(d) == d

Unescaped(d) == IF d = "n" THEN "LF" ELSE d

\* JSON.parse, reading one value of text s from position j on: the value and
\* the position after it.
RECURSIVE ScanString(_, _, _)
ScanString(s, j, acc) ==
  IF s[j] = "\"" THEN [val |-> acc, next |-> j + 1]
  ELSE IF s[j] = "\\" THEN ScanString(s, j + 2, Append(acc, Unescaped(s[j + 1])))
  ELSE ScanString(s, j + 1, Append(acc, s[j]))

RECURSIVE ParseValue(_, _)
RECURSIVE ParseItems(_, _, _)
RECURSIVE ParseMembers(_, _, _)
ParseItems(s, j, acc) ==
  LET r == ParseValue(s, j)
      items == Append(acc, r.val)
  IN  IF s[r.next] = ","
      THEN ParseItems(s, r.next + 1, items)
      ELSE [val |-> Arr(items), next |-> r.next + 1]
ParseMembers(s, j, acc) ==
  LET k == ScanString(s, j + 1, <<>>)
      r == ParseValue(s, k.next + 1)
      members == Append(acc, <<k.val, r.val>>)
  IN  IF s[r.next] = ","
      THEN ParseMembers(s, r.next + 1, members)
      ELSE [val |-> Obj(members), next |-> r.next + 1]
ParseValue(s, j) ==
  CASE s[j] = "\"" -> LET r == ScanString(s, j + 1, <<>>)
                      IN  [val |-> Str(r.val), next |-> r.next]
    [] s[j] = "true" -> [val |-> Bool(TRUE), next |-> j + 1]
    [] s[j] = "false" -> [val |-> Bool(FALSE), next |-> j + 1]
    [] s[j] = "[" -> IF s[j + 1] = "]"
                     THEN [val |-> Arr(<<>>), next |-> j + 2]
                     ELSE ParseItems(s, j + 1, <<>>)
    [] s[j] = "{" -> IF s[j + 1] = "}"
                     THEN [val |-> Obj(<<>>), next |-> j + 2]
                     ELSE ParseMembers(s, j + 1, <<>>)

parse(s) == ParseValue(s, 1).val

\* obj[key]
Member(obj, key) ==
  LET at == CHOOSE x \in 1..Len(obj.v) : obj.v[x][1] = key
  IN  obj.v[at][2]

MessageKey == <<"M", "e", "s", "s", "a", "g", "e">>

\* publish: Message = JSON.stringify(job), MessageBody = JSON.stringify(snsOverSqs)
EnvelopePublish ==
  /\ envelope.pc = "job"
  /\ LET snsOverSqs == Obj(<<<<MessageKey, Str(stringify(envelope.job))>>>>)
     IN  envelope' = [envelope EXCEPT !.pc = "published", !.Body = stringify(snsOverSqs)]
  /\ UNCHANGED <<workerVars, fetcher, batchStore, waiter, reporter, scene, restart, profile>>

\* const bodyParsed = JSON.parse(it.Body!)
EnvelopeParseBody ==
  /\ envelope.pc = "published"
  /\ envelope' = [envelope EXCEPT !.pc = "bodyParsed", !.bodyParsed = parse(envelope.Body)]
  /\ UNCHANGED <<workerVars, fetcher, batchStore, waiter, reporter, scene, restart, profile>>

\* const job = JSON.parse(bodyParsed.Message)
EnvelopeParseMessage ==
  /\ envelope.pc = "bodyParsed"
  /\ envelope' = [envelope EXCEPT
       !.pc = "decoded",
       !.decoded = parse(Member(envelope.bodyParsed, MessageKey).v)]
  /\ UNCHANGED <<workerVars, fetcher, batchStore, waiter, reporter, scene, restart, profile>>

InitEnvelope ==
  /\ WorkerAbsent
  /\ restart = Idle
  /\ profile = Idle
  /\ scene = Idle
  /\ fetcher = Idle
  /\ batchStore = Idle
  /\ waiter = Idle
  /\ reporter = Idle
  /\ envelope \in {[pc |-> "job", job |-> j, Body |-> <<>>, bodyParsed |-> Obj(<<>>),
                    decoded |-> Obj(<<>>)] : j \in Jobs}

NextEnvelope ==
  \/ EnvelopePublish
  \/ EnvelopeParseBody
  \/ EnvelopeParseMessage

SpecEnvelope == InitEnvelope /\ [][NextEnvelope]_vars

\* C22: the job obtained by parsing the published body and then parsing its
\* Message field equals the job that was published.
C22_EnvelopeRoundTrip ==
  envelope.pc = "decoded" => envelope.decoded = envelope.job

\* A job whose entityId holds a quote, escaped once for the Message and once
\* more for the body.
C22_Witness ==
  /\ envelope.pc = "decoded"
  /\ Member(Member(envelope.job, <<"e">>), <<"i">>) = Str(<<"\"", "LF">>)
  /\ Len(envelope.Body) > Len(stringify(envelope.job)) + 12
  /\ envelope.decoded = envelope.job

\* ------------------------------------------------------------------------
\* The stop signal
\* ------------------------------------------------------------------------
\* The runner hands the main loop an object whose isRunning it sets to false
\* when the service is told to stop; the signal can arrive at any moment.
Stop ==
  /\ isRunning
  /\ pc \notin {"crashed", "stopped"}
  /\ isRunning' = FALSE
  /\ UNCHANGED <<configVars, pipeVars, sqs, q, sent, currentQueueIndex, i,
                 cur, handlerResult, godot, restarting, storage, failures_total,
                 observations, deleteSent, order, activeHandlers, restarts,
                 pipelineEntered, pipelineRaised, pollGhosts, pc, crashedAt>>

\* while (opt.isRunning) read after consumeAndProcessJob has returned: the
\* only place where the loop looks at the signal.
MainLoopExit ==
  /\ PreviousCallReturned
  /\ ~isRunning
  /\ pc' = "stopped"
  /\ UNCHANGED <<configVars, pipeVars, sqs, q, sent, isRunning, currentQueueIndex,
                 i, cur, handlerResult, godot, restarting, storage, failures_total,
                 observations, deleteSent, order, activeHandlers, restarts,
                 pipelineEntered, pipelineRaised, pollGhosts, crashedAt>>

\* The worker in godot_optimizer mode on the cloud adapter, with a stop
\* signal and no faults.
InitStop ==
  /\ InitCommon
  /\ backend = "sqs"
  /\ priorityQueueUrl = FALSE
  /\ entityQueues = <<SceneQueue>>
  /\ processMethod = "godot_optimizer"
  /\ faults = "none"
  /\ history = FALSE

NextStop ==
  \/ MainLoop
  \/ MainLoopExit
  \/ RecvEntity
  \/ ProcessBadBody
  \/ ProcessGodotNoEntity
  \/ ProcessGodotScene
  \/ ProcessGodotWearable
  \/ ScIsReady
  \/ ScMetaSubmit
  \/ ScMetaWait
  \/ ScMetaStore
  \/ ChainStep
  \/ BatchDone
  \/ WeIsReady
  \/ WeFetch
  \/ WeSubmit
  \/ WeWait
  \/ WeStore
  \/ StoreReport
  \/ RestartKill
  \/ RestartPoll
  \/ AfterHandlerSqs
  \/ DeleteDone
  \/ PublishAny
  \/ VisibilityTimeout
  \/ Stop

SpecStop == InitStop /\ [][NextStop]_vars

\* C23: after a stop signal the worker starts no new job: the pipeline in
\* progress runs to completion, no further delivery is handed to a
\* handler, and the main loop terminates.  Stated on the deliveries: once
\* isRunning is false, no step receives a delivery for the handler.
C23_AsStated == [][~isRunning => order' = order]_vars

\* What the code does keep: a pipeline that is running when the signal
\* arrives is not interrupted, and the loop ends only between two calls of
\* consumeAndProcessJob.
StopsOnlyBetweenCalls ==
  [][pc # "stopped" /\ pc' = "stopped" => PreviousCallReturned /\ ~isRunning]_vars

\* A delivery received after the signal: the poll was already inside
\* consumeAndProcessJob's while (true).
DeliveredAfterStop == ~isRunning /\ pc = "process" /\ cur # NoMsg

\* ------------------------------------------------------------------------
\* The round-robin cursor
\* ------------------------------------------------------------------------
\* The position in entityQueues of the queue a delivery came from.
IndexOfQueue(qn) == CHOOSE x \in 0..(K - 1) : entityQueues[x + 1] = qn

DeliveredFromEntityQueue == order' # order /\ cur'.queue # PriorityQueue

\* The last receive of a cycle returned nothing, as every one before it.
EmptyCycleEnds ==
  /\ pc = "recv_entity"
  /\ IsLastAttempt(i, K)
  /\ order' = order
  /\ sqs' = sqs

\* C26: the round-robin cursor changes only as follows: a poll that
\* receives a message from entity queue q sets it to (q + 1) mod k, a poll
\* cycle in which every entity queue returned nothing advances it by
\* exactly one (mod k), every other step leaves it alone; it stays in
\* 0..k-1.
C26_CursorMovesOnlyAsStated ==
  [][/\ currentQueueIndex' \in 0..(K - 1)
     /\ IF DeliveredFromEntityQueue
        THEN currentQueueIndex' = (IndexOfQueue(cur'.queue) + 1) % K
        ELSE IF EmptyCycleEnds
        THEN currentQueueIndex' = (currentQueueIndex + 1) % K
        ELSE currentQueueIndex' = currentQueueIndex]_vars

\* With three entity queues, a second delivery came from the last one and
\* the cursor wrapped to the first.
C26_Witness ==
  /\ K = 3
  /\ pc = "process"
  /\ cur.queue = entityQueues[3]
  /\ currentQueueIndex = 0
  /\ Len(order) >= 2

\* ------------------------------------------------------------------------
\* Receive errors
\* ------------------------------------------------------------------------
\* tryReceiveFromQueue's catch: this step recorded a receive that failed.
ReceiveFails ==
  /\ Len(attempts') = Len(attempts) + 1
  /\ attempts'[Len(attempts')].result = "error"

\* The only sleep of the adapter, await sleep(1000), is in the outer catch
\* of consumeAndProcessJob; a position of the adapter other than a receive.
ReceivePcs == {"recv_priority", "recv_entity"}

\* C29: when a receive call to a queue fails with an error, the error is
\* logged and the adapter sleeps 1 s before its next poll iteration: the
\* adapter does not go straight on to another receive.
C29_AsStated == [][ReceiveFails => pc' \notin ReceivePcs]_vars

\* What the code does: the failed receive counts as an empty one, and the
\* next queue of the cycle is asked at once.
FailedReceiveCountsAsEmpty == [][ReceiveFails => pc' = "recv_entity" /\ order' = order]_vars

\* ------------------------------------------------------------------------
\* processScene of the godot_optimizer handler, one call on its own, with
\* the hashes the metadata names
\* ------------------------------------------------------------------------
MaxHashes == 2

HashNames == <<"H1", "H2", "H3", "H4">>
Hashes == {HashNames[n] : n \in 1..MaxHashes}
entityId == "bafy"

\* metadata.optimizedContent: up to two hashes, possibly the same twice.
Contents ==
  {<<>>} \cup {<<a>> : a \in Hashes} \cup {<<a, b>> : a, b \in Hashes}

\* Object.keys(metadata.externalSceneDependencies): the keys in the order
\* of the document, each once.
DependencyKeys ==
  {<<>>} \cup {<<a>> : a \in Hashes}
    \cup {p \in Hashes \X Hashes : p[1] # p[2]}

\* What the metadata pass left at zip_path.
Zips ==
  {[entries |-> e] : e \in {"unreadable", "none", "other"}}
  \cup {[entries |-> "metadata", json |-> "invalid"]}
  \cup {[entries |-> "metadata", json |-> "valid",
         optimizedContent |-> c, externalSceneDependencies |-> g] :
          c \in Contents, g \in DependencyKeys}

\* extractMetadataFromZip
extractMetadataFromZip(zip) ==
  IF zip.entries = "unreadable" THEN "parse_error"
  ELSE IF zip.entries = "none" THEN "empty_zip"
  ELSE IF zip.entries = "other" THEN "metadata_not_found"
  ELSE IF zip.json = "invalid" THEN "parse_error"
  ELSE "metadata"

\* reason === 'empty_zip' || reason === 'metadata_not_found'
OnlyEmptyZip(reason) == reason = "empty_zip"
NoOptimizableAssets(reason) == reason \in {"empty_zip", "metadata_not_found"}

Range(s) == {s[k] : k \in 1..Len(s)}

\* new Set(array): the elements in the order of their first occurrence
RECURSIVE SetOf(_)
SetOf(s) ==
  IF s = <<>> THEN <<>>
  ELSE LET front == SetOf(SubSeq(s, 1, Len(s) - 1))
       IN IF s[Len(s)] \in Range(front) THEN front ELSE Append(front, s[Len(s)])

RECURSIVE Without(_, _)
Without(s, gone) ==
  IF s = <<>> THEN <<>>
  ELSE IF Head(s) \in gone THEN Without(Tail(s), gone)
  ELSE <<Head(s)>> \o Without(Tail(s), gone)

gltfHashes(metadata) == SetOf(metadata.externalSceneDependencies)
allHashes(metadata) == SetOf(metadata.optimizedContent)

\* [...allHashes].filter((h) => !gltfHashes.has(h))
Unfiltered(metadata) == allHashes(metadata)
textureHashes(metadata) == Without(allHashes(metadata), Range(gltfHashes(metadata)))

\* [...gltfHashes, ...textureHashes]
allAssetHashes(metadata) == gltfHashes(metadata) \o textureHashes(metadata)

MobileZip(hash) == [hash |-> hash, suffix |-> "-mobile.zip"]
ReportKey == [hash |-> entityId, suffix |-> "-report.json"]

Submission(outputHash, packHashes) ==
  [sceneHash |-> entityId, outputHash |-> outputHash, packHashes |-> packHashes]

SceneCalled(bundles, up) ==
  [pc |-> "isReady", concurrentBundles |-> bundles, storageUp |-> up,
   metadataSubmit |-> "none", zip |-> [entries |-> "unset"], allAssetHashes |-> <<>>,
   batchStart |-> 0, chains |-> <<>>, submissions |-> <<>>,
   uploads |-> {}, stored |-> {},
   total |-> 0, successful |-> 0, failed |-> 0, errors |-> 0,
   individualZips |-> <<>>, result |-> "null", raised |-> FALSE]

\* storage.storeFile(key, path): the call is made; the object is in storage
\* afterwards when the upload worked.
SceneStoreFile(s, key) ==
  [s EXCEPT !.uploads = @ \cup {key},
            !.stored = IF s.storageUp THEN @ \cup {key} ELSE @]

\* return inside the try block: the finally block runs next
SceneReturns(s, result) == [s EXCEPT !.pc = "finally", !.result = result]

\* catch (error) { report.errors.push(...); report.result = { success: false }; throw error }
SceneThrows(s) ==
  [s EXCEPT !.pc = "finally", !.errors = @ + 1, !.result = [success |-> FALSE],
            !.raised = TRUE]

NoAssets == [success |-> TRUE, optimizedAssets |-> 0, individualZips |-> <<>>]

\* 1. assetServer.isReady()
SceneIsReady ==
  /\ scene.pc = "isReady"
  /\ \E ready \in BOOLEAN :
       scene' = IF ready THEN [scene EXCEPT !.pc = "meta_submit"] ELSE SceneThrows(scene)
  /\ UNCHANGED <<workerVars, fetcher, batchStore, waiter, reporter, envelope, restart, profile>>

\* 2. the metadata pass: processScene with packHashes: []
SceneMetaSubmit ==
  /\ scene.pc = "meta_submit"
  /\ \E r \in SubmitResults :
       LET s == [scene EXCEPT !.metadataSubmit = r,
                              !.submissions = Append(@, Submission(entityId, <<>>))]
       IN scene' = IF r = "accepted" THEN [s EXCEPT !.pc = "meta_wait"]
                   ELSE IF TreatedAsNoAssets(r) THEN SceneReturns(s, NoAssets)
                   ELSE SceneThrows(s)
  /\ UNCHANGED <<workerVars, fetcher, batchStore, waiter, reporter, envelope, restart, profile>>

\* 3. waitForCompletion, 4. extractMetadataFromZip and the hashes to process
SceneMetaWait ==
  /\ scene.pc = "meta_wait"
  /\ \E r \in WaitResults, zip \in Zips :
       IF r # "completed"
       THEN scene' = SceneThrows(scene)
       ELSE LET reason == extractMetadataFromZip(zip)
                s == [scene EXCEPT !.zip = zip]
            IN IF reason = "metadata"
               THEN scene' = [s EXCEPT !.pc = "meta_store",
                                       !.allAssetHashes = allAssetHashes(zip),
                                       !.total = Len(allAssetHashes(zip))]
               ELSE IF NoOptimizableAssets(reason)
               THEN scene' = SceneReturns(s, NoAssets)
               ELSE scene' = SceneThrows(s)
  /\ UNCHANGED <<workerVars, fetcher, batchStore, waiter, reporter, envelope, restart, profile>>

\* allAssetHashes.slice(i, i + concurrentBundles), as positions
SceneBatch(s, start) ==
  {a \in 1..Len(s.allAssetHashes) : start < a /\ a <= start + s.concurrentBundles}

\* batch.map(async (assetHash) => ...): every chain of the batch runs up to
\* its first await, the processScene call for its hash.
SceneStartBatch(s, start) ==
  LET batch == SceneBatch(s, start)
      calls == [k \in 1..Cardinality(batch) |->
                  Submission(s.allAssetHashes[start + k], <<s.allAssetHashes[start + k]>>)]
  IN [s EXCEPT !.pc = "batch", !.batchStart = start,
               !.chains = [a \in 1..Len(s.allAssetHashes) |->
                             IF a \in batch THEN "submit" ELSE s.chains[a]],
               !.submissions = @ \o calls]

\* 5. the metadata ZIP is uploaded; without assets the pipeline returns,
\* otherwise Phase B starts.
SceneMetaStore ==
  /\ scene.pc = "meta_store"
  /\ LET s == SceneStoreFile(scene, MobileZip(entityId))
     IN scene' =
          IF Len(scene.allAssetHashes) = 0
          THEN SceneReturns(s, [success |-> TRUE, optimizedAssets |-> 0,
                                individualZips |-> <<MobileZip(entityId)>>])
          ELSE SceneStartBatch(
                 [s EXCEPT !.individualZips = <<MobileZip(entityId)>>,
                           !.chains = [a \in 1..Len(scene.allAssetHashes) |-> "pending"]], 0)
  /\ UNCHANGED <<workerVars, fetcher, batchStore, waiter, reporter, envelope, restart, profile>>

\* catch (error) of one chain, and its else branch: the failure is counted
\* and described in the report, and the chain's promise resolves.
ChainFailed(s, a) ==
  [s EXCEPT !.chains[a] = "failed", !.failed = @ + 1, !.errors = @ + 1]

\* 6. one step of one per-asset chain
SceneChainStep ==
  /\ scene.pc = "batch"
  /\ \E a \in SceneBatch(scene, scene.batchStart) :
       \/ /\ scene.chains[a] = "submit"
          /\ \E r \in SubmitResults :
               scene' = IF r = "accepted" THEN [scene EXCEPT !.chains[a] = "wait"]
                        ELSE ChainFailed(scene, a)
       \/ /\ scene.chains[a] = "wait"
          /\ \E r \in WaitResults :
               scene' = IF r = "completed" THEN [scene EXCEPT !.chains[a] = "store"]
                        ELSE ChainFailed(scene, a)
       \/ /\ scene.chains[a] = "store"
          /\ scene' = [SceneStoreFile(scene, MobileZip(scene.allAssetHashes[a]))
                         EXCEPT !.chains[a] = "ok",
                                !.successful = @ + 1,
                                !.individualZips = Append(@, MobileZip(scene.allAssetHashes[a]))]
  /\ UNCHANGED <<workerVars, fetcher, batchStore, waiter, reporter, envelope, restart, profile>>

\* success: report.individualAssets.failed === 0
AlwaysSuccess(failed) == TRUE
SceneSuccess(failed) == failed = 0

\* await Promise.all(batchPromises), then the next batch or report.result
SceneBatchDone ==
  /\ scene.pc = "batch"
  /\ \A a \in SceneBatch(scene, scene.batchStart) : scene.chains[a] \in {"ok", "failed"}
  /\ scene' =
       IF scene.batchStart + scene.concurrentBundles < Len(scene.allAssetHashes)
       THEN SceneStartBatch(scene, scene.batchStart + scene.concurrentBundles)
       ELSE SceneReturns(scene, [success |-> SceneSuccess(scene.failed),
                                 optimizedAssets |-> scene.successful,
                                 individualZips |-> scene.individualZips])
  /\ UNCHANGED <<workerVars, fetcher, batchStore, waiter, reporter, envelope, restart, profile>>

\* finally { await storeReport(report, tempDir, storage, logger) }
SceneStoreReport ==
  /\ scene.pc = "finally"
  /\ scene' = [SceneStoreFile(scene, ReportKey) EXCEPT !.pc = "done"]
  /\ UNCHANGED <<workerVars, fetcher, batchStore, waiter, reporter, envelope, restart, profile>>

InitScene ==
  /\ WorkerAbsent
  /\ restart = Idle
  /\ profile = Idle
  /\ fetcher = Idle
  /\ batchStore = Idle
  /\ waiter = Idle
  /\ reporter = Idle
  /\ envelope = Idle
  /\ scene \in {SceneCalled(bundles, up) : bundles \in {1, 2}, up \in BOOLEAN}

NextScene ==
  \/ SceneIsReady
  \/ SceneMetaSubmit
  \/ SceneMetaWait
  \/ SceneMetaStore
  \/ SceneChainStep
  \/ SceneBatchDone
  \/ SceneStoreReport

SpecScene == InitScene /\ [][NextScene]_vars

SceneDone == scene.pc = "done"

\* C24: empty scene: when the metadata pass produces a ZIP with no entries,
\* or a ZIP without the {scene_hash}-optimized.json entry, the pipeline
\* uploads no -mobile.zip key, submits no per-asset processScene call, and
\* stores only the report, with result.success = true, optimizedAssets = 0
\* and individualZips = [].
EmptyScene ==
  /\ scene.pc \in {"finally", "done"}
  /\ scene.zip.entries \in {"none", "other"}

C24_EmptySceneStoresOnlyReport ==
  EmptyScene =>
    /\ scene.uploads \subseteq {ReportKey}
    /\ scene.stored \subseteq {ReportKey}
    /\ SceneDone => scene.uploads = {ReportKey}
    /\ scene.submissions = <<Submission(entityId, <<>>)>>
    /\ scene.result = NoAssets
    /\ ~scene.raised

C24_Witness ==
  /\ SceneDone
  /\ scene.zip.entries = "other"
  /\ scene.stored = {ReportKey}

\* Phase B has started, or is over.
PhaseB == scene.chains # <<>>
PhaseBOver == PhaseB /\ scene.pc \in {"finally", "done"}

\* G = keys(externalSceneDependencies) and T = optimizedContent \ G
G == Range(scene.zip.externalSceneDependencies)
T == Range(scene.zip.optimizedContent) \ G

PerAssetCalls == {k \in 1..Len(scene.submissions) : scene.submissions[k].packHashes # <<>>}
CallsFor(h) == {k \in PerAssetCalls : scene.submissions[k].outputHash = h}

\* C25: in Phase B the asset hashes processed are exactly G \cup T: each
\* hash h of that set is submitted exactly once with output_hash = h and
\* pack_hashes = [h], no other hash is submitted, individualAssets.total
\* is |G \cup T|, and the keys handed to storage are the metadata key and
\* h-mobile.zip for the hashes whose chain completed.
C25_PhaseBProcessesExactlyGT ==
  PhaseB =>
    /\ \A k \in PerAssetCalls :
         /\ scene.submissions[k].outputHash \in G \cup T
         /\ scene.submissions[k].packHashes = <<scene.submissions[k].outputHash>>
    /\ \A h \in G \cup T : Cardinality(CallsFor(h)) <= 1
    /\ PhaseBOver => \A h \in G \cup T : Cardinality(CallsFor(h)) = 1
    /\ scene.total = Cardinality(G \cup T)
    /\ scene.uploads \ {ReportKey} =
         {MobileZip(entityId)}
           \cup {MobileZip(scene.allAssetHashes[a]) :
                   a \in {x \in 1..Len(scene.chains) : scene.chains[x] = "ok"}}

\* The example of the claim: optimizedContent = [H1, H2] and
\* externalSceneDependencies = {H1: [d]} with two chains at a time; the
\* report has total 2 and the three keys are stored.
C25_Witness ==
  /\ SceneDone
  /\ scene.concurrentBundles = 2
  /\ scene.zip.entries = "metadata"
  /\ scene.zip.json = "valid"
  /\ scene.zip.optimizedContent = <<"H1", "H2">>
  /\ scene.zip.externalSceneDependencies = <<"H1">>
  /\ scene.total = 2
  /\ scene.successful = 2
  /\ {MobileZip(entityId), MobileZip("H1"), MobileZip("H2")} \subseteq scene.stored

\* The per-asset chains that failed, and those that ended either way.
FailedChains == {a \in 1..Len(scene.chains) : scene.chains[a] = "failed"}
SettledChains == {a \in 1..Len(scene.chains) : scene.chains[a] \in {"ok", "failed"}}

\* C27: in Phase B a failure of one per-asset call is recorded in the
\* report and does not abort its batch or later batches: the failure is
\* counted and described, the pipeline does not raise, every asset is
\* still processed, and at the end result.success is true if and only if
\* individualAssets.failed = 0.
C27_AssetFailureRecordedNotAborting ==
  PhaseB =>
    /\ scene.failed = Cardinality(FailedChains)
    /\ scene.errors = scene.failed
    /\ ~scene.raised
    /\ PhaseBOver =>
         /\ SettledChains = 1..Len(scene.allAssetHashes)
         /\ scene.successful + scene.failed = scene.total
         /\ scene.result.success = (scene.failed = 0)
         /\ scene.result.optimizedAssets = scene.successful

\* The first asset failed in a batch of its own and the second, in the
\* next batch, was still processed and stored.
C27_Witness ==
  /\ SceneDone
  /\ scene.concurrentBundles = 1
  /\ Len(scene.chains) = 2
  /\ scene.chains[1] = "failed"
  /\ scene.chains[2] = "ok"
  /\ scene.result.success = FALSE

\* The metadata submission was refused, and the pipeline has left its try
\* block.
MetadataSubmissionRefused ==
  /\ scene.metadataSubmit \notin {"none", "accepted"}
  /\ scene.pc \in {"finally", "done"}

\* A refusal with status 400, or with error text containing "No
\* processable assets".
RefusedForNoAssets(r) ==
  \/ SubmitStatus(r) = 400
  \/ Includes(SubmitErrorText(r), NoProcessableAssets)

FinishedAsNoAssets ==
  /\ scene.result = NoAssets
  /\ ~scene.raised
  /\ PerAssetCalls = {}
  /\ SceneDone => ReportKey \in scene.uploads

\* C28: in the metadata pass, a processScene submission that fails with
\* status 400 or with error text containing "No processable assets" makes
\* the pipeline finish as success with 0 assets (report written, no
\* exception raised, no per-asset work); any other submission failure
\* makes the pipeline raise.
C28_AsStated ==
  MetadataSubmissionRefused =>
    IF RefusedForNoAssets(scene.metadataSubmit)
    THEN FinishedAsNoAssets
    ELSE scene.raised /\ scene.result = [success |-> FALSE]

\* What the code does: the test is made on the whole message, status and
\* text together.
RefusalJudgedOnWholeMessage ==
  MetadataSubmissionRefused =>
    IF TreatedAsNoAssets(scene.metadataSubmit)
    THEN FinishedAsNoAssets
    ELSE scene.raised /\ scene.result = [success |-> FALSE]

\* A 500 whose text holds the characters 400 was taken for a scene without
\* assets.
ServerErrorTakenForNoAssets ==
  /\ SceneDone
  /\ MetadataSubmissionRefused
  /\ SubmitStatus(scene.metadataSubmit) = 500
  /\ scene.result = NoAssets

\* ------------------------------------------------------------------------
\* The priority queue and the cursor
\* ------------------------------------------------------------------------
DeliveredFromPriorityQueue == order' # order /\ cur'.queue = PriorityQueue

\* C37: a poll that takes its message from the priority queue leaves the
\* round-robin cursor unchanged, so the next poll without a priority
\* message starts at the entity queue it would have started at before.
C37_PriorityPollKeepsCursor ==
  [][DeliveredFromPriorityQueue =>
       /\ currentQueueIndex' = currentQueueIndex
       /\ QueueIndexAt(currentQueueIndex', 0, K) = QueueIndexAt(currentQueueIndex, 0, K)]_vars

\* With several entity queues and the cursor away from the first one, a
\* priority message is being processed.
C37_Witness ==
  /\ pc = "process"
  /\ cur.queue = PriorityQueue
  /\ K >= 2
  /\ currentQueueIndex = 1

\* ------------------------------------------------------------------------
\* The receives of one round-robin pass
\* ------------------------------------------------------------------------
IsEntityAttempt(a) == a.queue # PriorityQueue
EntityAttempts == SelectSeq(attempts, IsEntityAttempt)

\* C35: in the round-robin pass over k entity queues the first k-1
\* attempted queues are received from with a wait of 1 s and only the
\* last attempted queue of the pass with the long-poll wait of 15 s; every
\* receive asks for at most 1 message with a visibility timeout of
\* 10,800 s, and the pass ends at the first receive that returns a
\* message, so one consumeAndProcessJob call hands at most one delivery to
\* the handler.
C35_ShortWaitsThenOneLongPoll ==
  /\ Len(EntityAttempts) <= K
  /\ \A j \in 1..Len(EntityAttempts) :
       EntityAttempts[j].wait = IF j = K THEN 15 ELSE 1
  /\ \A a \in 1..Len(attempts) :
       /\ attempts[a].MaxNumberOfMessages <= 1
       /\ attempts[a].VisibilityTimeout = 10800
       /\ attempts[a].result = "msg" => a = Len(attempts) /\ pc = "process"
  /\ pc = "process" => activeHandlers <= 1

\* Three entity queues: the first two were asked with the short wait and
\* returned nothing, the third delivered under the long poll.
C35_Witness ==
  /\ K = 3
  /\ pc = "process"
  /\ Len(EntityAttempts) = 3
  /\ EntityAttempts[1].wait = 1
  /\ EntityAttempts[2].wait = 1
  /\ EntityAttempts[3].wait = 15
  /\ EntityAttempts[3].result = "msg"

\* ------------------------------------------------------------------------
\* Deliveries that are not acknowledged
\* ------------------------------------------------------------------------
\* The cloud adapter in 'log' mode on one queue, where a body may fail to
\* decode and a DeleteMessage may fail; the value each call returns is
\* observed.
InitAck ==
  /\ InitCommon
  /\ backend = "sqs"
  /\ priorityQueueUrl = FALSE
  /\ entityQueues = <<SceneQueue>>
  /\ processMethod = "log"
  /\ concurrentBundles = 1
  /\ godot = "ready"
  /\ faults = "ack"
  /\ history = FALSE

PublishAck == PublishSqs({"scene", "badBody"})

NextAck ==
  \/ MainLoop
  \/ RecvEntity
  \/ ProcessBadBody
  \/ ProcessLog
  \/ AfterHandlerSqs
  \/ DeleteDone
  \/ PublishAck
  \/ VisibilityTimeout

SpecAck == InitAck /\ [][NextAck]_vars

UndecodableDelivery == pc = "process" /\ cur.body = "badBody"

\* C36: a delivery whose body cannot be decoded is never passed to the
\* handler, is not deleted from its queue, and increments failures_total;
\* the message stays in its queue, receivable again after the visibility
\* timeout.
C36_UndecodableCountedNotAcked ==
  /\ [](UndecodableDelivery => InQueue(cur) /\ handlerResult = "none")
  /\ [][UndecodableDelivery /\ pc' # pc =>
          /\ pc' = "main_loop"
          /\ handlerResult' = "none"
          /\ failures_total' = failures_total + 1
          /\ deleteSent' = deleteSent
          /\ sqs' = sqs
          /\ callResult' = "undefined"]_vars

\* The same undecodable message is delivered a second time.
C36_Witness ==
  /\ UndecodableDelivery
  /\ cur.delivery = 2
  /\ order[1] = order[2]
  /\ failures_total = 1
  /\ deleteSent = {}

\* The step in which the DeleteMessage call settled: failed when the
\* message is still in the queue afterwards.
DeleteSettles == pc = "deleting" /\ pc' # pc
DeleteFailed == DeleteSettles /\ sqs' = sqs

\* C39: when the handler returned and the DeleteMessage call then fails,
\* consumeAndProcessJob increments failures_total and returns an undefined
\* result instead of the handler's; the processed message remains in the
\* queue, so it can be delivered and processed a second time.
C39_FailedDeleteCountedAndRedelivered ==
  [][DeleteSettles =>
       IF DeleteFailed
       THEN /\ handlerResult = "returned"
            /\ failures_total' = failures_total + 1
            /\ callResult' = "undefined"
            /\ \E j \in 1..Len(sqs'[cur.queue]) : sqs'[cur.queue][j].id = cur.id
            /\ pc' = "main_loop"
       ELSE /\ failures_total' = failures_total
            /\ callResult' = "result"]_vars

\* The handler has returned for the second delivery of one message whose
\* first DeleteMessage failed.
C39_Witness ==
  /\ pc = "handler_settled"
  /\ handlerResult = "returned"
  /\ cur.delivery = 2
  /\ order[1] = order[2]
  /\ deleteSent = {1}
  /\ failures_total = 1

\* ------------------------------------------------------------------------
\* Jobs that find the engine down
\* ------------------------------------------------------------------------
EngineDownAtCheck == pc \in {"sc_isReady", "we_isReady"} /\ godot = "down"

\* C38: when the engine is not ready after a failed restart, the worker
\* keeps consuming: the pipeline of each following job raises at its
\* readiness check without submitting any engine work, its report says
\* success = false, another restart is attempted, the handler returns and
\* the DeleteMessage of the delivery is sent (the message leaves the queue
\* when that call succeeds), and the worker is back in the main loop.
C38_EngineDownJobsFailAndAreAcked ==
  [][/\ (EngineDownAtCheck /\ WorkerResumes) =>
          /\ pc' = "report"
          /\ raised'
          /\ report' = "failure"
          /\ nAssets' = 0
          /\ chains' = <<>>
     /\ (raised /\ godot = "down" /\ pc = "report" /\ WorkerResumes) =>
          /\ storage' \in {storage, storage \cup {ReportObject("failure")}}
          /\ restarts' = restarts + 1
          /\ restarting'
          /\ pc' = "restart_kill"
     /\ (pipelineRaised /\ pc = "restart_poll" /\ WorkerResumes) =>
          /\ handlerResult' = "returned"
          /\ pc' = "handler_settled"
     /\ (pipelineRaised /\ pc = "handler_settled" /\ backend = "sqs" /\ WorkerResumes) =>
          /\ cur.delivery \in deleteSent'
          /\ failures_total' = failures_total
          /\ pc' = "deleting"
     /\ (pc = "deleting" /\ WorkerResumes) =>
          /\ pc' = "main_loop"
          /\ isRunning'
          /\ failures_total' = failures_total =>
               \A j \in 1..Len(sqs'[cur.queue]) : sqs'[cur.queue][j].id # cur.id
    ]_vars

\* The restart after the first job left the engine down; the second job
\* has raised at its readiness check and its report is about to be written.
C38_Witness ==
  /\ backend = "sqs"
  /\ pc = "report"
  /\ cur.delivery = 2
  /\ raised
  /\ report = "failure"
  /\ godot = "down"
  /\ 1 \in deleteSent
  /\ storage = {}


\* ---------------------------------------------------------------------------
\* storeFile on its own, on both backends.
\* ---------------------------------------------------------------------------

SingleCall == batchStore.pc = "called" /\ batchStore.op = "storeFile"

SingleWriteFails == ~batchStore.script[1][1]

\* C34: storeFile never raises to its caller on either backend: when reading
\* the source file or the upload / write fails, the failure is logged as an
\* error and the call returns normally, after one attempt and with nothing
\* stored.
C34_StoreFileNeverRaises ==
  SingleCall =>
    \A inst \in {batchStore.s3, batchStore.local} :
      /\ inst.pc \in {"for", "returned"}
      /\ (inst.pc = "returned" /\ SingleWriteFails) =>
           /\ inst.logged = "error_" \o batchStore.fault
           /\ inst.stored = {}
           /\ inst.tries = 1
      /\ (inst.pc = "returned" /\ ~SingleWriteFails) =>
           /\ inst.logged = "info_stored"
           /\ inst.stored = {1}

C34_Witness ==
  /\ SingleCall
  /\ SingleWriteFails
  /\ batchStore.fault = "read"
  /\ batchStore.s3.pc = "returned"
  /\ batchStore.local.pc = "returned"
  /\ batchStore.s3.logged = "error_read"


\* ---------------------------------------------------------------------------
\* restartGodot of the engine client (src/adapters/asset-server.ts), one call
\* on its own.
\* ---------------------------------------------------------------------------

RestartPolls == 60          \* for (let i = 0; i < 60; i++)

\* What GET /health gives: a 2xx answer, another answer, or a failed request.
HealthAnswers == {"2xx", "non_2xx", "error"}

\* isReady: response.ok, and false when the request fails.
isReady(health) == health = "2xx"

\* Only a running engine answers.
HealthOf(alive) == IF alive THEN HealthAnswers ELSE {"error"}

\* The inner try/catch around the kill command ignores its failure.
KillFailureAborts(ok) == IF ok THEN "wait" ELSE "catch"
AfterKill(ok) == "wait"

RestartCalled ==
  [pc |-> "kill", killed |-> "none", oldAlive |-> TRUE, spawned |-> "none",
   i |-> 0, readyPolls |-> 0, result |-> "none", steps |-> <<>>]

EngineAlive == restart.oldAlive \/ restart.spawned = "started"

\* await execAsync('pkill -9 -f ... || true'): the command settles or is
\* rejected; a rejected one may have left the old engine running.
RgKill ==
  /\ restart.pc = "kill"
  /\ \E ok \in BOOLEAN :
       \E alive \in (IF ok THEN {FALSE} ELSE BOOLEAN) :
         restart' = [restart EXCEPT !.pc = AfterKill(ok),
                                    !.killed = IF ok THEN "ok" ELSE "failed",
                                    !.oldAlive = alive,
                                    !.steps = Append(@, "kill")]
  /\ UNCHANGED <<workerVars, fetcher, batchStore, waiter, reporter, envelope, scene, profile>>

\* the 2000 ms wait
RgWait ==
  /\ restart.pc = "wait"
  /\ restart' = [restart EXCEPT !.pc = "spawn", !.steps = Append(@, "wait")]
  /\ UNCHANGED <<workerVars, fetcher, batchStore, waiter, reporter, envelope, scene, profile>>

\* exec(godotCmd); child.unref(): the engine is started, or exec throws.
RgSpawn ==
  /\ restart.pc = "spawn"
  /\ \E out \in {"started", "threw"} :
       restart' = [restart EXCEPT !.pc = IF out = "threw" THEN "catch" ELSE "for",
                                  !.spawned = out,
                                  !.steps = Append(@, "spawn")]
  /\ UNCHANGED <<workerVars, fetcher, batchStore, waiter, reporter, envelope, scene, profile>>

\* One round of the loop: 1000 ms, then isReady; return true when ready.
RgPoll ==
  /\ restart.pc = "for"
  /\ restart.i < RestartPolls
  /\ \E health \in HealthOf(EngineAlive) :
       restart' = [restart EXCEPT
         !.i = @ + 1,
         !.readyPolls = IF isReady(health) THEN @ + 1 ELSE @,
         !.pc = IF isReady(health) THEN "returned" ELSE "for",
         !.result = IF isReady(health) THEN "true" ELSE "none"]
  /\ UNCHANGED <<workerVars, fetcher, batchStore, waiter, reporter, envelope, scene, profile>>

\* The loop is over: log and return false.
RgGiveUp ==
  /\ restart.pc = "for"
  /\ restart.i = RestartPolls
  /\ restart' = [restart EXCEPT !.pc = "returned", !.result = "false"]
  /\ UNCHANGED <<workerVars, fetcher, batchStore, waiter, reporter, envelope, scene, profile>>

\* The outer catch: log and return false.
RgCatch ==
  /\ restart.pc = "catch"
  /\ restart' = [restart EXCEPT !.pc = "returned", !.result = "false"]
  /\ UNCHANGED <<workerVars, fetcher, batchStore, waiter, reporter, envelope, scene, profile>>

InitRestart ==
  /\ WorkerAbsent
  /\ fetcher = Idle
  /\ batchStore = Idle
  /\ waiter = Idle
  /\ reporter = Idle
  /\ envelope = Idle
  /\ scene = Idle
  /\ profile = Idle
  /\ restart = RestartCalled

NextRestart ==
  \/ RgKill
  \/ RgWait
  \/ RgSpawn
  \/ RgPoll
  \/ RgGiveUp
  \/ RgCatch

SpecRestart == InitRestart /\ [][NextRestart]_vars

RestartReturned == restart.pc = "returned"

RestartStepFailed == restart.killed = "failed" \/ restart.spawned = "threw"

\* C31 as stated: restartGodot never raises, polls isReady at most 60 times,
\* returns true at the first poll that finds the engine ready, and returns
\* false if none does or if any step (the kill, the wait, the re-spawn)
\* fails.
C31_AsStated ==
  restart.pc # "idle" =>
    /\ restart.pc # "raised"
    /\ restart.i <= RestartPolls
    /\ (RestartReturned /\ restart.result = "true") => restart.readyPolls = 1
    /\ (RestartReturned /\ restart.readyPolls = 0) => restart.result = "false"
    /\ (RestartReturned /\ RestartStepFailed) => restart.result = "false"

\* C31, amended: restartGodot never raises; it sends the kill, waits,
\* re-spawns the engine and polls isReady at most 60 times, in that order;
\* it returns true at the first poll that finds the engine ready, and false
\* if none of the 60 polls does or if the re-spawn raises.  A
\* failure of the kill command is ignored: the call goes on to the wait, the
\* re-spawn and the polls.
C31_RestartNeverRaises ==
  restart.pc # "idle" =>
    /\ restart.pc \in {"kill", "wait", "spawn", "for", "catch", "returned"}
    /\ restart.i <= RestartPolls
    /\ restart.readyPolls <= 1
    /\ restart.i > 0 => restart.steps = <<"kill", "wait", "spawn">>
    /\ RestartReturned =>
         /\ restart.result \in {"true", "false"}
         /\ restart.result = "true" <=> restart.readyPolls = 1
         /\ restart.result = "false" <=>
              \/ restart.i = RestartPolls /\ restart.readyPolls = 0
              \/ restart.spawned = "threw"
         /\ restart.killed = "failed" => Len(restart.steps) = 3

C31_Witness ==
  /\ RestartReturned
  /\ restart.killed = "failed"
  /\ restart.result = "true"
  /\ restart.i > 1

RestartGaveUp ==
  /\ RestartReturned
  /\ restart.result = "false"
  /\ restart.i = RestartPolls


\* ---------------------------------------------------------------------------
\* urnToPointer (src/components.ts), one call and a second call on its
\* result.  A URN is a sequence of tokens: the colon, the text
\* `collections-v2` and any other character.
\* ---------------------------------------------------------------------------

MaxUrnLen == 8              \* longest URN explored, in tokens

PointerParts == 6           \* parts.length > 6, parts.slice(0, 6)

UrnTokens == {":", "collections-v2", "x"}

RECURSIVE UrnsUpTo(_)
UrnsUpTo(n) ==
  IF n = 0 THEN {<<>>}
  ELSE UrnsUpTo(n - 1) \cup {Append(w, c) : w \in UrnsUpTo(n - 1), c \in UrnTokens}

\* String.prototype.split(':')
RECURSIVE split(_)
split(text) ==
  IF \A k \in 1..Len(text) : text[k] # ":"
  THEN <<text>>
  ELSE LET k == CHOOSE j \in 1..Len(text) :
                  text[j] = ":" /\ \A h \in 1..(j - 1) : text[h] # ":"
       IN <<SubSeq(text, 1, k - 1)>> \o split(SubSeq(text, k + 1, Len(text)))

\* Array.prototype.join(':')
RECURSIVE join(_)
join(parts) ==
  IF Len(parts) = 0 THEN <<>>
  ELSE IF Len(parts) = 1 THEN parts[1]
  ELSE parts[1] \o <<":">> \o join(Tail(parts))

\* Array.prototype.slice(0, n)
slice(parts, n) == SubSeq(parts, 1, IF n < Len(parts) THEN n ELSE Len(parts))

TokenIdKept(urn) == urn
urnToPointer(urn) ==
  LET parts == split(urn)
  IN IF Includes(urn, <<"collections-v2">>) /\ Len(parts) > PointerParts
     THEN join(slice(parts, PointerParts))
     ELSE urn

UrnCalled(u) == [pc |-> "urn_called", urn |-> u, once |-> <<>>, twice |-> <<>>]

UrnToPointer ==
  /\ profile.pc = "urn_called"
  /\ profile' = [profile EXCEPT !.pc = "urn_once", !.once = urnToPointer(profile.urn)]
  /\ UNCHANGED <<workerVars, fetcher, batchStore, waiter, reporter, envelope, scene, restart>>

UrnToPointerAgain ==
  /\ profile.pc = "urn_once"
  /\ profile' = [profile EXCEPT !.pc = "urn_twice", !.twice = urnToPointer(profile.once)]
  /\ UNCHANGED <<workerVars, fetcher, batchStore, waiter, reporter, envelope, scene, restart>>

InitUrn ==
  /\ WorkerAbsent
  /\ fetcher = Idle
  /\ batchStore = Idle
  /\ waiter = Idle
  /\ reporter = Idle
  /\ envelope = Idle
  /\ scene = Idle
  /\ restart = Idle
  /\ profile \in {UrnCalled(u) : u \in UrnsUpTo(MaxUrnLen)}

NextUrn ==
  \/ UrnToPointer
  \/ UrnToPointerAgain

SpecUrn == InitUrn /\ [][NextUrn]_vars

Colons(text) == Cardinality({k \in 1..Len(text) : text[k] = ":"})

\* A URN that contains the text collections-v2 and has more than 6
\* colon-delimited segments, that is at least 6 colons.
LongCollectionsV2(urn) ==
  /\ \E k \in 1..Len(urn) : urn[k] = "collections-v2"
  /\ Colons(urn) >= PointerParts

\* The first 6 segments of a URN with at least 6 colons: what stands before
\* its 6th colon.
IsFirstSixSegments(p, urn) ==
  /\ Len(p) < Len(urn)
  /\ p = SubSeq(urn, 1, Len(p))
  /\ Colons(p) = PointerParts - 1
  /\ urn[Len(p) + 1] = ":"

\* C32: urnToPointer truncates a collections-v2 URN (one that contains the
\* text collections-v2) with more than 6 colon-delimited segments to its
\* first 6 segments and returns every other URN unchanged; applying it
\* twice gives the same result as applying it once.
C32_UrnToPointer ==
  /\ profile.pc \in {"urn_once", "urn_twice"} =>
       IF LongCollectionsV2(profile.urn)
       THEN IsFirstSixSegments(profile.once, profile.urn)
       ELSE profile.once = profile.urn
  /\ profile.pc = "urn_twice" => profile.twice = profile.once

C32_Witness ==
  /\ profile.pc = "urn_twice"
  /\ LongCollectionsV2(profile.urn)
  /\ Len(profile.once) < Len(profile.urn)
  /\ \E k \in 1..Len(profile.once) : profile.once[k] = "collections-v2"

TruncationDropsTheMarker ==
  /\ profile.pc = "urn_twice"
  /\ LongCollectionsV2(profile.urn)
  /\ \A k \in 1..Len(profile.once) : profile.once[k] # "collections-v2"


\* ---------------------------------------------------------------------------
\* Profile expansion: handleProfile and its caller in initComponents
\* (src/components.ts), one run of the process started with --profile.
\* ---------------------------------------------------------------------------

MaxGltfs == 3               \* most GLTF files collected from the entities

\* ASSET_SERVER_CONCURRENT_BUNDLES, a positive integer.
ConcurrentLimits == {1, 2}

RECURSIVE GltfListsUpTo(_)
GltfListsUpTo(n) ==
  IF n = 0 THEN {<<>>}
  ELSE GltfListsUpTo(n - 1) \cup {Append(w, h) : w \in GltfListsUpTo(n - 1), h \in Hashes}

\* What the two content-server requests give.
ProfileAnswers == {"avatars", "no_avatars", "no_pointers", "not_ok"}
EntitiesAnswers == {"entities", "not_ok"}

ProfileCalled(limit) ==
  [pc |-> "isReady", concurrentLimit |-> limit, collected |-> FALSE, gltfAssets |-> <<>>,
   i |-> 0, chains |-> <<>>, submissions |-> <<>>, uploads |-> {},
   successful |-> 0, failed |-> 0, caught |-> FALSE, exitCodes |-> {}]

\* gltfAssets.slice(i, i + concurrentLimit), as indexes
ProfileBatch(p, start) ==
  {a \in 1..Len(p.gltfAssets) : start < a /\ a <= start + p.concurrentLimit}

\* batch.map(async (asset) => ...): every chain of the batch runs up to its
\* first await, the processAssets call for its asset.
ProfileStartBatch(p, start) ==
  LET batch == ProfileBatch(p, start)
  IN [p EXCEPT !.pc = "batch", !.i = start,
               !.chains = [a \in 1..Len(p.gltfAssets) |->
                             IF a \in batch THEN "submit" ELSE p.chains[a]],
               !.submissions = @ \o [k \in 1..Cardinality(batch) |-> start + k]]

\* for (let i = 0; i < gltfAssets.length; i += concurrentLimit)
ProfileFor(p, start) ==
  IF start < Len(p.gltfAssets) THEN ProfileStartBatch(p, start)
  ELSE [p EXCEPT !.pc = "returned"]

\* The else branch and the catch of one chain: the error is logged and the
\* chain's promise resolves with success: false.
ProfileChainRejects(p, a) == [p EXCEPT !.chains[a] = "failed", !.pc = "catch"]
ProfileChainFailed(p, a) == [p EXCEPT !.chains[a] = "failed"]

\* 1. assetServer.isReady(); not ready: log and return
ProfileIsReady ==
  /\ profile.pc = "isReady"
  /\ \E ready \in BOOLEAN :
       profile' = [profile EXCEPT !.pc = IF ready THEN "fetch_profile" ELSE "returned"]
  /\ UNCHANGED <<workerVars, fetcher, batchStore, waiter, reporter, envelope, scene, restart>>

\* 2.-3. the profile is fetched and the pointers are extracted
ProfileFetch ==
  /\ profile.pc = "fetch_profile"
  /\ \E r \in ProfileAnswers :
       profile' = [profile EXCEPT !.pc = CASE r = "avatars" -> "fetch_entities"
                                           [] r = "not_ok" -> "catch"
                                           [] OTHER -> "returned"]
  /\ UNCHANGED <<workerVars, fetcher, batchStore, waiter, reporter, envelope, scene, restart>>

\* 4.-5. the active entities are fetched and their GLTF files collected, one
\* asset for each file; then the loop starts.
ProfileCollect ==
  /\ profile.pc = "fetch_entities"
  /\ \E r \in EntitiesAnswers :
       \/ /\ r = "not_ok"
          /\ profile' = [profile EXCEPT !.pc = "catch"]
       \/ /\ r = "entities"
          /\ \E assets \in GltfListsUpTo(MaxGltfs) :
               profile' = ProfileFor(
                 [profile EXCEPT !.collected = TRUE, !.gltfAssets = assets,
                                 !.chains = [a \in 1..Len(assets) |-> "pending"]], 0)
  /\ UNCHANGED <<workerVars, fetcher, batchStore, waiter, reporter, envelope, scene, restart>>

\* 6. one step of one chain of the running batch
ProfileChainStep ==
  /\ profile.pc = "batch"
  /\ \E a \in ProfileBatch(profile, profile.i) :
       \/ /\ profile.chains[a] = "submit"
          /\ \E r \in SubmitResults :
               profile' = IF r = "accepted" THEN [profile EXCEPT !.chains[a] = "wait"]
                          ELSE ProfileChainFailed(profile, a)
       \/ /\ profile.chains[a] = "wait"
          /\ \E r \in WaitResults :
               profile' = IF r = "completed" THEN [profile EXCEPT !.chains[a] = "store"]
                          ELSE ProfileChainFailed(profile, a)
       \/ /\ profile.chains[a] = "store"
          /\ profile' = [profile EXCEPT !.chains[a] = "ok",
                                        !.uploads = @ \cup {MobileZip(profile.gltfAssets[a])}]
  /\ UNCHANGED <<workerVars, fetcher, batchStore, waiter, reporter, envelope, scene, restart>>

\* await Promise.all(batchPromises); the results are counted; next batch
ProfileBatchDone ==
  /\ profile.pc = "batch"
  /\ LET batch == ProfileBatch(profile, profile.i)
     IN /\ \A a \in batch : profile.chains[a] \in {"ok", "failed"}
        /\ profile' = ProfileFor(
             [profile EXCEPT
                !.successful = @ + Cardinality({a \in batch : profile.chains[a] = "ok"}),
                !.failed = @ + Cardinality({a \in batch : profile.chains[a] = "failed"})],
             profile.i + profile.concurrentLimit)
  /\ UNCHANGED <<workerVars, fetcher, batchStore, waiter, reporter, envelope, scene, restart>>

\* catch (error) { logger.error(...) } of handleProfile
ProfileCatch ==
  /\ profile.pc = "catch"
  /\ profile' = [profile EXCEPT !.pc = "returned", !.caught = TRUE]
  /\ UNCHANGED <<workerVars, fetcher, batchStore, waiter, reporter, envelope, scene, restart>>

\* initComponents: await handleProfile(...); process.exit(0)
ProfileExit ==
  /\ profile.pc = "returned"
  /\ profile' = [profile EXCEPT !.pc = "exited", !.exitCodes = @ \cup {0}]
  /\ UNCHANGED <<workerVars, fetcher, batchStore, waiter, reporter, envelope, scene, restart>>

InitProfile ==
  /\ WorkerAbsent
  /\ fetcher = Idle
  /\ batchStore = Idle
  /\ waiter = Idle
  /\ reporter = Idle
  /\ envelope = Idle
  /\ scene = Idle
  /\ restart = Idle
  /\ profile \in {ProfileCalled(limit) : limit \in ConcurrentLimits}

NextProfile ==
  \/ ProfileIsReady
  \/ ProfileFetch
  \/ ProfileCollect
  \/ ProfileChainStep
  \/ ProfileBatchDone
  \/ ProfileCatch
  \/ ProfileExit

SpecProfile == InitProfile /\ [][NextProfile]_vars

ProfileRuns == profile.pc \in {"isReady", "fetch_profile", "fetch_entities", "batch",
                               "catch", "returned", "exited"}

ProfileInFlight ==
  {a \in 1..Len(profile.chains) : profile.chains[a] \in {"submit", "wait", "store"}}

SubmissionsOf(a) ==
  Cardinality({k \in 1..Len(profile.submissions) : profile.submissions[k] = a})

\* C33: in profile expansion every collected GLTF asset is submitted to
\* processAssets exactly once by the time the run ends and never more than
\* once, whatever happened to the other assets; at most concurrentLimit
\* assets are in flight at any time; handleProfile does not raise and the
\* process exits with code 0 when it has returned.
C33_ProfileExpansion ==
  ProfileRuns =>
    /\ Cardinality(ProfileInFlight) <= profile.concurrentLimit
    /\ \A a \in 1..Len(profile.gltfAssets) : SubmissionsOf(a) <= 1
    /\ (profile.collected /\ profile.pc \in {"returned", "exited"}) =>
         /\ \A a \in 1..Len(profile.gltfAssets) :
              SubmissionsOf(a) = 1 /\ profile.chains[a] \in {"ok", "failed"}
         /\ profile.successful + profile.failed = Len(profile.gltfAssets)
         /\ ~profile.caught
    /\ profile.pc = "exited" => profile.exitCodes = {0}
    /\ profile.exitCodes # {} => profile.pc = "exited"

\* An asset of the first batch failed, an asset of a later batch succeeded,
\* the same file was collected twice, and the process exited.
C33_Witness ==
  /\ profile.pc = "exited"
  /\ profile.concurrentLimit = 2
  /\ Len(profile.gltfAssets) = 3
  /\ profile.gltfAssets[1] = profile.gltfAssets[3]
  /\ profile.chains[1] = "failed"
  /\ profile.chains[3] = "ok"

ProfileFullBatchInFlight ==
  /\ profile.pc = "batch"
  /\ Cardinality(ProfileInFlight) = 2


\* ---------------------------------------------------------------------------
\* The lifecycle of the monitoring reporter (src/adapters/monitoring-reporter.ts):
\* start, stop, reportHeartbeat, reportJobComplete and the interval timer.
\* An HTTP request is counted when report() hands it to fetch.
\* ---------------------------------------------------------------------------

MaxRequests == 3            \* most requests counted
MaxPendingStarts == 2       \* most start calls awaiting initConfig at once

\* What config.getString gives for MONITORING_URL and MONITORING_SECRET.
ConfigValues == {"undefined", "", "value"}

\* !monitoringUrl, !monitoringSecret
Falsy(v) == v \in {"undefined", ""}

ReporterCreated(url, secret) ==
  [pc |-> "created", envUrl |-> url, envSecret |-> secret,
   monitoringUrl |-> "undefined", monitoringSecret |-> "undefined",
   heartbeatInterval |-> "undefined", timers |-> 0, isRunning |-> FALSE,
   pendingStarts |-> 0, requests |-> 0, lastOp |-> "none"]

\* report(endpoint, data): nothing without URL or secret, else one request
Reported(r) ==
  IF Falsy(r.monitoringUrl) \/ Falsy(r.monitoringSecret) THEN r
  ELSE [r EXCEPT !.requests = @ + 1]

sendHeartbeat(r) == Reported(r)

\* startHeartbeat: nothing when a timer is set; else one heartbeat and
\* setInterval
TimerSetAgain(r) ==
  [sendHeartbeat(r) EXCEPT !.heartbeatInterval = "timer", !.timers = @ + 1]
startHeartbeat(r) ==
  IF r.heartbeatInterval # "undefined" THEN r
  ELSE [sendHeartbeat(r) EXCEPT !.heartbeatInterval = "timer", !.timers = @ + 1]

\* stopHeartbeat: clearInterval of the timer the variable refers to
stopHeartbeat(r) ==
  IF r.heartbeatInterval # "undefined"
  THEN [r EXCEPT !.heartbeatInterval = "undefined", !.timers = @ - 1]
  ELSE r

CanCount == reporter.pc # "idle" /\ reporter.requests < MaxRequests

\* start() is called and awaits initConfig()
HbStartCalled ==
  /\ CanCount
  /\ reporter.pendingStarts < MaxPendingStarts
  /\ reporter' = [reporter EXCEPT !.pendingStarts = @ + 1, !.lastOp = "start_called"]
  /\ UNCHANGED <<workerVars, fetcher, batchStore, waiter, envelope, scene, restart, profile>>

\* initConfig() has read the configuration; isRunning = true; startHeartbeat()
HbStartResumes ==
  /\ CanCount
  /\ reporter.pendingStarts > 0
  /\ reporter' = [startHeartbeat([reporter EXCEPT
                                    !.monitoringUrl = reporter.envUrl,
                                    !.monitoringSecret = reporter.envSecret,
                                    !.isRunning = TRUE])
                    EXCEPT !.pendingStarts = @ - 1, !.pc = "started",
                           !.lastOp = IF reporter.heartbeatInterval # "undefined"
                                      THEN "start_again" ELSE "start"]
  /\ UNCHANGED <<workerVars, fetcher, batchStore, waiter, envelope, scene, restart, profile>>

\* stop(): isRunning = false; stopHeartbeat()
HbStop ==
  /\ CanCount
  /\ reporter' = [stopHeartbeat([reporter EXCEPT !.isRunning = FALSE])
                    EXCEPT !.pc = "stopped", !.lastOp = "stop"]
  /\ UNCHANGED <<workerVars, fetcher, batchStore, waiter, envelope, scene, restart, profile>>

\* reportHeartbeat(data): a heartbeat right away while running
HbReportHeartbeat ==
  /\ CanCount
  /\ reporter' = [(IF reporter.isRunning THEN sendHeartbeat(reporter) ELSE reporter)
                    EXCEPT !.lastOp = "reportHeartbeat"]
  /\ UNCHANGED <<workerVars, fetcher, batchStore, waiter, envelope, scene, restart, profile>>

\* reportJobComplete(data)
HbReportJobComplete ==
  /\ CanCount
  /\ reporter' = [Reported(reporter) EXCEPT !.lastOp = "reportJobComplete"]
  /\ UNCHANGED <<workerVars, fetcher, batchStore, waiter, envelope, scene, restart, profile>>

\* 10 s have passed on a live interval timer: sendHeartbeat
HbTimerFires ==
  /\ CanCount
  /\ reporter.timers > 0
  /\ reporter' = [sendHeartbeat(reporter) EXCEPT !.lastOp = "timer"]
  /\ UNCHANGED <<workerVars, fetcher, batchStore, waiter, envelope, scene, restart, profile>>

InitHeartbeat ==
  /\ WorkerAbsent
  /\ fetcher = Idle
  /\ batchStore = Idle
  /\ waiter = Idle
  /\ envelope = Idle
  /\ scene = Idle
  /\ restart = Idle
  /\ profile = Idle
  /\ reporter \in {ReporterCreated(url, secret) : url \in ConfigValues, secret \in ConfigValues}

NextHeartbeat ==
  \/ HbStartCalled
  \/ HbStartResumes
  \/ HbStop
  \/ HbReportHeartbeat
  \/ HbReportJobComplete
  \/ HbTimerFires

SpecHeartbeat == InitHeartbeat /\ [][NextHeartbeat]_vars

ReporterLives == reporter.pc \in {"created", "started", "stopped"}

MonitoringConfigured == reporter.envUrl = "value" /\ reporter.envSecret = "value"

\* C40: the monitoring reporter has at most one heartbeat interval timer at
\* any time (a start while running creates no second one), none once stop
\* has run and until a start completes, a reportHeartbeat call made in that
\* stopped state sends nothing, and when the monitoring URL or secret is not
\* configured no request is ever sent.
C40_OneTimerAndSilentWhenStopped ==
  /\ [](ReporterLives =>
          /\ reporter.timers <= 1
          /\ reporter.pc = "stopped" => reporter.timers = 0
          /\ ~MonitoringConfigured => reporter.requests = 0)
  /\ [][(reporter.pc = "stopped" /\ reporter'.lastOp = "reportHeartbeat")
          => reporter'.requests = reporter.requests]_vars

\* A start has completed while the timer of an earlier start was set, with
\* monitoring configured: one timer, and two heartbeats so far.
C40_Witness ==
  /\ reporter.pc = "started"
  /\ MonitoringConfigured
  /\ reporter.timers = 1
  /\ reporter.lastOp = "start_again"
  /\ reporter.requests = 2

HeartbeatWhileStopped ==
  /\ reporter.pc = "stopped"
  /\ MonitoringConfigured
  /\ reporter.lastOp = "reportHeartbeat"
  /\ reporter.requests > 0

StoppedWhileStarting ==
  /\ reporter.pc = "stopped"
  /\ reporter.pendingStarts > 0

=============================================================================
